---- MODULE Spec2Model ----
(***************************************************************************)
(* Whac-A-Mole firmware: command ISR, pause controller, game task and      *)
(* telemetry (agent) task with its offline ring buffer.                    *)
(*                                                                         *)
(* Sources: emb/src/uart_cmd.c (UART_Handler, pause_task, agent_task,      *)
(* the event_buffer functions), unnamed/part_008 (game.c),                 *)
(* emb/include/rtos_queues.h,                                              *)
(* emb/include/game.h, emb/src/io_expander.c, unnamed/part_002 (next_rand).*)
(***************************************************************************)
EXTENDS Integers, Sequences, FiniteSets, TLC

(***************************************************************************)
(* Program constants                                                       *)
(***************************************************************************)
EVENT_QUEUE_LENGTH == 32

CMD_QUEUE_LENGTH == 8

EVENT_BUFFER_SIZE == 100

AGENT_TIMEOUT_MS == 60000

LVLS == 8

LIVES == 5

LED_COUNT == 8

BTN_HW_STATE == 255

\* RNG_INIT_STATE 0xDEADBEEF, upper and lower half
RNG_INIT_HI == 57005

RNG_INIT_LO == 48879

(***************************************************************************)
(* Bounds of the model                                                     *)
(***************************************************************************)
\* events the game task emits in the telemetry specification
MaxEmit == 4

\* bytes the UART delivers in the telemetry specification
MaxTelBytes == 3

\* tick increment of one Tick step and the largest tick value explored
TickStep == 30001

MaxTick == 70000

\* events emitted in the ring-overflow specification
MaxPush == 102

\* events that may wait in the event queue in the ring-overflow specification
MaxBacklog == 1

\* bytes the UART delivers in the game specification
MaxGameBytes == 2

\* bytes the UART delivers in the level-switch specification
MaxLevelBytes == 1

\* last pop of a level (but for the final one) during which a SetLevel byte
\* arrives in the level-switch specification
MaxLevelPop == 0

\* SetLevel bytes of the level-selection specification, and the pops of
\* level 8 during which they arrive
MaxWinBytes == 3

MaxWinPop == 0

\* bytes received before the first session in the session-start specification
MaxStartBytes == 3

\* bytes received in the command-queue specification
MaxQueueBytes == 11

\* bytes received in the several-sessions specification
MaxRunBytes == 3

\* bytes the host sends in the fair specification
MaxLiveBytes == 1

\* events emitted and bytes sent in the suspension specification
MaxSuspEmit == 2

MaxSuspBytes == 3

\* P bytes sent after the bootstrap
MaxHandleBytes == 2

\* bytes sent during sessions in the kept-start specification
MaxKeepBytes == 2

\* SetLevel bytes sent in the level-advance specification
MaxAdvBytes == 2

\* bytes received in the dispatcher specification
MaxIsrBytes == 2

\* bytes of the host's presence protocol (D, I) in the stand-alone
\* specification
MaxAloneBytes == 2

\* the levels (0-based) at whose start the host's presence may change in the
\* stand-alone specification
MaxAloneLvl == 0

\* bytes the UART delivers in the pause specification
MaxPauseBytes == 2

\* polling slices, counted from the start of a pop, in which a press may come
MaxPressSlice == 1

\* sessions a button press (or failed button read) in Idle may start
MaxSessions == 1

VARIABLES
    event_queue,        \* FreeRTOS queue game task -> agent task
    cmd_queue,          \* FreeRTOS queue ISR -> game task
    agent_connected,    \* volatile bool
    identify_requested, \* volatile bool
    last_command_tick,  \* volatile TickType_t
    tick,               \* xTaskGetTickCount()
    event_buffer,       \* event_ring_buffer_t
    serial,             \* lines written to stdout (UART TX), oldest first
    a_pc,               \* agent_task: position
    a_event,            \* agent_task: local "event"
    a_now,              \* agent_task: tick count read by the timeout check
    notified,           \* pause_task: notification pending
    paused,             \* static bool paused
    game_task_handle,   \* static TaskHandle_t game_task_handle
    game_handle,        \* init_all: game_handle (-1: indeterminate)
    b_pc,               \* init_all: position
    suspended,          \* game task is in the Suspended state
    lives,              \* static uint8_t lives
    rng_state,          \* static uint32_t rng_state, as two 16-bit halves
    requested_level_idx,
    level_change_pending,
    reset_requested,
    start_requested,
    reset_abort_session,
    g_pc,               \* game task: position
    lvl,                \* game_run: lvl / game_run_level: lvl_idx
    pop,                \* game_run_level: pop
    mole,               \* game_run_level: mole (pop_do: target_led)
    outcome,            \* game_run_level: outcome
    reaction_ms,        \* game_run_level: reaction_ms
    btn_state,          \* pop_do / await_start: btn_state (-1: indeterminate)
    db_time,            \* pop_do: db_time
    elapsed,            \* pop_do: elapsed
    idle_i,             \* await_start: i
    idle_j,             \* await_start: j
    lastEmit,           \* history: the event the game task emitted last
    nonHits,            \* history: Miss/Late PopResults emitted in this session
    inSession,          \* history: SessionStart emitted, its SessionEnd not yet
    nSessions,          \* history: SessionStart events emitted so far
    nEnds,              \* history: SessionEnd events since the last SessionStart
    stray,              \* history: a PopResult or LevelComplete was emitted
                        \*          outside a session
    resetRx,            \* history: an R byte arrived during this session
    lvlRx,              \* history: level asked for by a SetLevel byte that
                        \*          arrived while another level was in progress,
                        \*          0 if none or a PopResult of that level (or
                        \*          a session event) was emitted since
    switchTo,           \* history: level the game task decided to switch to
                        \*          when it last drained a SetLevel command in
                        \*          a session, 0 if none since the last emission
    emitNote,           \* history: lvlRx and switchTo at the last emission
    slices,             \* history: polling slices completed in this pop
    hitPress,           \* history: the last poll read the target's button
                        \*          as pressed
    pausedInPoll,       \* history: the game task was suspended during this
                        \*          pop's polling loop
    resetDrained,       \* history: a Reset was drained during this session
    pressSeen,          \* history: a read in this pop window showed a press
    askedLvl,           \* history: level asked for by the latest SetLevel
                        \*          command queued since the latest Reset
                        \*          command was queued, 0 if none
    nPops,              \* history: PopResult events emitted in the open session
    nDone,              \* history: LevelComplete events emitted in the open
                        \*          session
    startWiped,         \* history: the game task's last step was taken in
                        \*          Idle and consumed a Reset together with a
                        \*          pending Start
    nEmitted,           \* history: events handed to xQueueSend so far
    nBytes,             \* history: bytes the ISR has read so far
    dMark,              \* history: length of serial when the latest D arrived,
                        \*          -1 once an I has arrived after it (or no D yet)
    identMark,          \* history: length of serial when the telemetry task took
                        \*          up an identify request with events in the ring,
                        \*          -1 if the ring was empty (or no request yet)
    nPushed,            \* history: calls of event_buffer_push so far
    nIdent,             \* history: I bytes received so far
    staleSeq,           \* history: seq of the first event emitted while
                        \*          agent_connected and more than 60 s after the
                        \*          last byte, 0 if none or a byte arrived since
    checkedOut,         \* history: the timeout check cleared agent_connected
                        \*          and no identify request was taken up since
    servedSusp          \* history: what the telemetry task has done while
                        \*          the game task was suspended ("event": taken
                        \*          an event from the queue, "identify": taken
                        \*          up an identify request, "timeout": cleared
                        \*          agent_connected)

telVars == <<event_queue, agent_connected, identify_requested, last_command_tick,
             tick, event_buffer, serial, a_pc, a_event, a_now>>

isrVars == <<cmd_queue, notified>>

bootVars == <<game_task_handle, game_handle, b_pc>>

pauseVars == <<paused, suspended, bootVars>>

telHist == <<staleSeq, checkedOut, servedSusp>>

histVars == <<nEmitted, nBytes, dMark, identMark, nPushed, nIdent, telHist>>

gameFlags == <<requested_level_idx, level_change_pending, reset_requested,
               start_requested, reset_abort_session>>

gameLocals == <<lvl, pop, mole, outcome, reaction_ms, btn_state, db_time, elapsed,
                idle_i, idle_j>>

gameHist == <<lastEmit, nonHits, inSession, nSessions, nEnds, stray,
              resetDrained, pressSeen, switchTo, emitNote, slices, hitPress,
              startWiped, nPops, nDone>>

isrHist == <<resetRx, lvlRx, pausedInPoll, askedLvl>>

gameVars == <<lives, rng_state, gameFlags, g_pc, gameLocals, gameHist>>

vars == <<telVars, isrVars, pauseVars, histVars, gameVars, isrHist>>

(***************************************************************************)
(* Events and frames                                                       *)
(***************************************************************************)
\* zero-initialised game_event_t (static storage of event_buffer.events)
ZeroEvent == [type |-> "SessionStart", seq |-> 0]

IdentifyFrame == [type |-> "identify", seq |-> 0]

pdMS_TO_TICKS(ms) == ms

(***************************************************************************)
(* Unsigned 32-bit tick arithmetic, kept as two 16-bit halves              *)
(***************************************************************************)
U32(n) == [hi |-> n \div 65536, lo |-> n % 65536]

\* (a - b) mod 2^32 for TickType_t operands
U32Sub(a, b) ==
    LET borrow == IF a.lo < b.lo THEN 1 ELSE 0
        lo == (a.lo - b.lo + 65536) % 65536
        hi == (a.hi - b.hi - borrow + 65536) % 65536
    IN  [hi |-> hi, lo |-> lo]

\* compares the wrong way round
U32Gt_rev(a, b) == a.hi < b.hi \/ (a.hi = b.hi /\ a.lo < b.lo)

U32Gt(a, b) == a.hi > b.hi \/ (a.hi = b.hi /\ a.lo > b.lo)

(***************************************************************************)
(* FreeRTOS queue primitives                                               *)
(***************************************************************************)
\* sends only while the agent is connected
xQueueSend_connected(q, e, cap) ==
    IF agent_connected /\ Len(q) < cap THEN Append(q, e) ELSE q

\* accepts every item
xQueueSend_grow(q, e, cap) == Append(q, e)

\* makes room by dropping the oldest item
xQueueSend_overwrite(q, e, cap) ==
    IF Len(q) < cap THEN Append(q, e) ELSE Append(Tail(q), e)

\* xQueueSend(q, &e, 0) / xQueueSendFromISR: drop when full
xQueueSend(q, e, cap) == IF Len(q) < cap THEN Append(q, e) ELSE q

(***************************************************************************)
(* Ring buffer                                                             *)
(***************************************************************************)
event_buffer_init ==
    [events |-> [i \in 0..(EVENT_BUFFER_SIZE - 1) |-> ZeroEvent],
     head |-> 0, tail |-> 0, count |-> 0]

\* drop-newest instead of overwrite-oldest
event_buffer_push_dropnew(b, e) ==
    IF b.count < EVENT_BUFFER_SIZE
    THEN [events |-> [b.events EXCEPT ![b.head] = e],
          head   |-> (b.head + 1) % EVENT_BUFFER_SIZE,
          tail   |-> b.tail,
          count  |-> b.count + 1]
    ELSE b

\* on a full buffer advances head and leaves tail where it is
event_buffer_push_notail(b, e) ==
    [events |-> [b.events EXCEPT ![b.head] = e],
     head   |-> (b.head + 1) % EVENT_BUFFER_SIZE,
     tail   |-> b.tail,
     count  |-> IF b.count < EVENT_BUFFER_SIZE THEN b.count + 1 ELSE b.count]

event_buffer_push(b, e) ==
    [events |-> [b.events EXCEPT ![b.head] = e],
     head   |-> (b.head + 1) % EVENT_BUFFER_SIZE,
     tail   |-> IF b.count < EVENT_BUFFER_SIZE
                THEN b.tail ELSE (b.tail + 1) % EVENT_BUFFER_SIZE,
     count  |-> IF b.count < EVENT_BUFFER_SIZE THEN b.count + 1 ELSE b.count]

\* copies the oldest entry out and leaves it in the buffer
event_buffer_pop_stay(b) == b

\* the buffer after a successful event_buffer_pop (count > 0)
event_buffer_pop(b) ==
    [b EXCEPT !.tail = (b.tail + 1) % EVENT_BUFFER_SIZE,
              !.count = b.count - 1]

\* reads the newest entry instead of the oldest
event_buffer_front_newest(b) ==
    b.events[(b.head + EVENT_BUFFER_SIZE - 1) % EVENT_BUFFER_SIZE]

\* the event a successful event_buffer_pop copies out
event_buffer_front(b) == b.events[b.tail]

(***************************************************************************)
(* Initial state: after init_all and vTaskStartScheduler                   *)
(***************************************************************************)
\* task handles: NULL, the three tasks, and an address that is no task
NULL_HANDLE == 0

GAME_TCB == 1

AGENT_TCB == 2

PAUSE_TCB == 3

NO_TCB == 4

Handles == {NULL_HANDLE, GAME_TCB, AGENT_TCB, PAUSE_TCB, NO_TCB}

\* init_all has returned INIT_SUCCESS and the pause controller holds the
\* handle of the game task
Booted ==
    /\ b_pc = "done"
    /\ game_handle = GAME_TCB
    /\ game_task_handle = GAME_TCB

\* the statics and the queues before the first task runs
InitTasks ==
    /\ event_queue = <<>>
    /\ cmd_queue = <<>>
    /\ agent_connected = FALSE
    /\ identify_requested = FALSE
    /\ last_command_tick = 0
    /\ tick = 0
    /\ event_buffer = event_buffer_init
    /\ serial = <<>>
    /\ a_pc = "a_top"
    /\ a_event = ZeroEvent
    /\ a_now = 0
    /\ notified = FALSE
    /\ paused = FALSE
    /\ suspended = FALSE
    /\ lives = 0
    /\ rng_state = [hi |-> 0, lo |-> 0]
    /\ requested_level_idx = 0
    /\ level_change_pending = FALSE
    /\ reset_requested = FALSE
    /\ start_requested = FALSE
    /\ reset_abort_session = FALSE
    /\ g_pc = "gt_drain1"
    /\ lvl = 0
    /\ pop = 0
    /\ mole = 0
    /\ outcome = "POP_HIT"
    /\ reaction_ms = 0
    /\ btn_state = BTN_HW_STATE
    /\ db_time = 0
    /\ elapsed = 0
    /\ idle_i = 0
    /\ idle_j = 0
    /\ lastEmit = [type |-> "none"]
    /\ nonHits = 0
    /\ inSession = FALSE
    /\ nSessions = 0
    /\ nEnds = 0
    /\ stray = FALSE
    /\ resetRx = FALSE
    /\ lvlRx = 0
    /\ askedLvl = 0
    /\ switchTo = 0
    /\ emitNote = [rx |-> 0, sw |-> 0]
    /\ slices = 0
    /\ hitPress = FALSE
    /\ startWiped = FALSE
    /\ nPops = 0
    /\ nDone = 0
    /\ pausedInPoll = FALSE
    /\ resetDrained = FALSE
    /\ pressSeen = FALSE
    /\ nEmitted = 0
    /\ nBytes = 0
    /\ dMark = -1
    /\ identMark = -1
    /\ nPushed = 0
    /\ nIdent = 0
    /\ staleSeq = 0
    /\ checkedOut = FALSE
    /\ servedSusp = {}

Init == InitTasks /\ Booted

(***************************************************************************)
(* Bootstrap: init_all of the build that uses the command dispatcher       *)
(***************************************************************************)
\* main has been entered: game_handle of init_all is not initialised, the
\* static game_task_handle is zero
PowerOn ==
    /\ b_pc = "io_expander_init"
    /\ game_handle = -1
    /\ game_task_handle = NULL_HANDLE

InitBoot == InitTasks /\ PowerOn

\* the values an argument expression can have: any handle for a variable
\* that was never assigned
ValuesOf(h) == IF h = -1 THEN Handles ELSE {h}

\* one TRY_INIT of init_all: the call succeeds and init_all goes on, or it
\* fails and init_all returns the error
BootStep(here, next) ==
    /\ b_pc = here
    /\ b_pc' \in {next, "failed"}
    /\ UNCHANGED <<telVars, isrVars, paused, suspended, histVars, gameVars,
                   isrHist>>

\* TRY_INIT(io_expander_init(), ...)
BootIo ==
    /\ BootStep("io_expander_init", "rtos_queues_init")
    /\ UNCHANGED <<game_handle, game_task_handle>>

\* TRY_INIT(rtos_queues_init(), ...)
BootQueues ==
    /\ BootStep("rtos_queues_init", "uart_cmd_init")
    /\ UNCHANGED <<game_handle, game_task_handle>>

\* TRY_INIT(uart_cmd_init(game_handle), ...): uart_cmd_init stores its
\* argument in game_task_handle before anything can fail
BootUartCmd ==
    /\ BootStep("uart_cmd_init", "create_game")
    /\ game_task_handle' \in ValuesOf(game_handle)
    /\ UNCHANGED game_handle

\* TRY_INIT(xTaskCreate(game_task, ..., &game_handle), ...)
BootGame ==
    /\ BootStep("create_game", "create_agent")
    /\ game_handle' = IF b_pc' = "failed" THEN game_handle ELSE GAME_TCB
    /\ UNCHANGED game_task_handle

\* TRY_INIT(xTaskCreate(agent_task, ..., NULL), ...), then return
\* INIT_SUCCESS and vTaskStartScheduler
BootAgent ==
    /\ BootStep("create_agent", "done")
    /\ UNCHANGED <<game_handle, game_task_handle>>

init_all == BootIo \/ BootQueues \/ BootUartCmd \/ BootGame \/ BootAgent

(***************************************************************************)
(* UART_Handler: one byte of the RX FIFO                                   *)
(***************************************************************************)
IsLevelByte(c) == c \in {"1", "2", "3", "4", "5", "6", "7", "8"}

LevelOf(c) == CHOOSE n \in 1..8 : ToString(n) = c

CmdOf(c) ==
    IF c = "R" THEN [type |-> "CMD_RESET", level |-> 0]
    ELSE IF c = "S" THEN [type |-> "CMD_START", level |-> 0]
    ELSE [type |-> "CMD_SET_LEVEL", level |-> LevelOf(c)]

\* refreshes the connection timer on every byte, D included
UART_Handler_refresh(c) ==
    /\ last_command_tick' = tick
    /\ notified' = IF c = "P" THEN TRUE ELSE notified
    /\ agent_connected' = IF c = "D" THEN FALSE ELSE agent_connected
    /\ cmd_queue' = IF c \in {"R", "S"} \/ IsLevelByte(c)
                    THEN xQueueSend(cmd_queue, CmdOf(c), CMD_QUEUE_LENGTH)
                    ELSE cmd_queue
    /\ identify_requested' = IF c = "I" THEN TRUE ELSE identify_requested
    /\ nBytes' = nBytes + 1
    /\ dMark' = IF c = "D" THEN Len(serial) ELSE IF c = "I" THEN -1 ELSE dMark
    /\ nIdent' = IF c = "I" THEN nIdent + 1 ELSE nIdent
    /\ staleSeq' = 0

UART_Handler(c) ==
    /\ last_command_tick' = IF c # "D" THEN tick ELSE last_command_tick
    /\ notified' = IF c = "P" THEN TRUE ELSE notified
    /\ agent_connected' = IF c = "D" THEN FALSE ELSE agent_connected
    /\ cmd_queue' = IF c \in {"R", "S"} \/ IsLevelByte(c)
                    THEN xQueueSend(cmd_queue, CmdOf(c), CMD_QUEUE_LENGTH)
                    ELSE cmd_queue
    /\ identify_requested' = IF c = "I" THEN TRUE ELSE identify_requested
    /\ nBytes' = nBytes + 1
    /\ dMark' = IF c = "D" THEN Len(serial) ELSE IF c = "I" THEN -1 ELSE dMark
    /\ nIdent' = IF c = "I" THEN nIdent + 1 ELSE nIdent
    /\ staleSeq' = 0

\* a byte arrives: the state the handler leaves alone
UartByte(c) ==
    /\ UART_Handler(c)
    /\ resetRx' = (resetRx \/ (c = "R" /\ inSession))
    /\ lvlRx' = IF /\ IsLevelByte(c)
                   /\ inSession
                   /\ g_pc \in {"lv_show", "lv_chk1", "lv_delay", "lv_chk2",
                                "pd_entry", "pd_db", "pd_poll", "lv_result"}
                   /\ LevelOf(c) - 1 # lvl
                THEN LevelOf(c) ELSE lvlRx
    /\ askedLvl' = IF Len(cmd_queue') = Len(cmd_queue) THEN askedLvl
                   ELSE IF IsLevelByte(c) THEN LevelOf(c)
                   ELSE IF c = "R" THEN 0 ELSE askedLvl
    /\ UNCHANGED <<event_queue, tick, event_buffer, serial, a_pc, a_event, a_now,
                   pauseVars, gameVars, nEmitted, identMark, nPushed, checkedOut,
                   servedSusp,
                   pausedInPoll>>

(***************************************************************************)
(* agent_task (telemetry task), uart_cmd.c:328-361                         *)
(***************************************************************************)
send_event_json(out, e) == Append(out, e)

\* writes nothing
send_identify_silent(out) == out

send_identify(out) == Append(out, IdentifyFrame)

\* line 336: agent_connected is read; when it is set the two operands of the
\* subtraction are read one after the other, in either order
AgentTimeoutRead ==
    /\ a_pc = "a_top"
    /\ IF agent_connected
       THEN \/ a_now' = tick /\ a_pc' = "a_cmp_last"
            \/ a_now' = last_command_tick /\ a_pc' = "a_cmp_tick"
       ELSE a_now' = a_now /\ a_pc' = "a_ident"
    /\ UNCHANGED <<event_queue, agent_connected, identify_requested,
                   last_command_tick, tick, event_buffer, serial, a_event,
                   isrVars, pauseVars, histVars, gameVars, isrHist>>

\* idle time as the timeout check computes it
IdleTicks == IF a_pc = "a_cmp_last"
             THEN U32Sub(U32(a_now), U32(last_command_tick))
             ELSE U32Sub(U32(tick), U32(a_now))

\* lines 337-338
AgentTimeoutCheck ==
    /\ a_pc \in {"a_cmp_last", "a_cmp_tick"}
    /\ agent_connected' = IF U32Gt(IdleTicks, U32(pdMS_TO_TICKS(AGENT_TIMEOUT_MS)))
                          THEN FALSE ELSE agent_connected
    /\ checkedOut' = (checkedOut \/ (agent_connected /\ ~agent_connected'))
    /\ servedSusp' = IF suspended /\ agent_connected /\ ~agent_connected'
                     THEN servedSusp \cup {"timeout"} ELSE servedSusp
    /\ a_now' = 0
    /\ a_pc' = "a_ident"
    /\ UNCHANGED <<event_queue, identify_requested, last_command_tick, tick,
                   event_buffer, serial, a_event, isrVars, pauseVars, gameVars,
                   isrHist, nEmitted, nBytes, dMark, identMark, nPushed, nIdent,
                   staleSeq>>

\* marks the connection and answers without flushing the ring buffer
AgentIdentify_noflush ==
    /\ a_pc = "a_ident"
    /\ IF identify_requested
       THEN /\ identify_requested' = FALSE
            /\ agent_connected' = TRUE
            /\ last_command_tick' = tick
            /\ identMark' = IF event_buffer.count > 0 THEN Len(serial) ELSE -1
            /\ checkedOut' = FALSE
            /\ servedSusp' = IF suspended THEN servedSusp \cup {"identify"}
                             ELSE servedSusp
            /\ a_pc' = "a_sendid"
       ELSE /\ UNCHANGED <<identify_requested, agent_connected, last_command_tick,
                           identMark, checkedOut, servedSusp>>
            /\ a_pc' = "a_recv"
    /\ UNCHANGED <<event_queue, tick, event_buffer, serial, a_event, a_now,
                   isrVars, pauseVars, gameVars, isrHist, nEmitted, nBytes, dMark,
                   nPushed, nIdent, staleSeq>>

\* lines 342-345
AgentIdentify ==
    /\ a_pc = "a_ident"
    /\ IF identify_requested
       THEN /\ identify_requested' = FALSE
            /\ agent_connected' = TRUE
            /\ last_command_tick' = tick
            /\ identMark' = IF event_buffer.count > 0 THEN Len(serial) ELSE -1
            /\ checkedOut' = FALSE
            /\ servedSusp' = IF suspended THEN servedSusp \cup {"identify"}
                             ELSE servedSusp
            /\ a_pc' = "a_flush"
       ELSE /\ UNCHANGED <<identify_requested, agent_connected, last_command_tick,
                           identMark, checkedOut, servedSusp>>
            /\ a_pc' = "a_recv"
    /\ UNCHANGED <<event_queue, tick, event_buffer, serial, a_event, a_now,
                   isrVars, pauseVars, gameVars, isrHist, nEmitted, nBytes, dMark,
                   nPushed, nIdent, staleSeq>>

\* line 346, event_buffer_flush: one iteration of its loop
AgentFlush ==
    /\ a_pc = "a_flush"
    /\ IF event_buffer.count = 0
       THEN /\ a_pc' = "a_sendid"
            /\ UNCHANGED <<event_buffer, serial>>
       ELSE /\ serial' = send_event_json(serial, event_buffer_front(event_buffer))
            /\ event_buffer' = event_buffer_pop(event_buffer)
            /\ a_pc' = "a_flush"
    /\ UNCHANGED <<event_queue, agent_connected, identify_requested,
                   last_command_tick, tick, a_event, a_now, isrVars, pauseVars,
                   histVars, gameVars, isrHist>>

\* line 347
AgentSendIdentify ==
    /\ a_pc = "a_sendid"
    /\ serial' = send_identify(serial)
    /\ a_pc' = "a_recv"
    /\ UNCHANGED <<event_queue, agent_connected, identify_requested,
                   last_command_tick, tick, event_buffer, a_event, a_now,
                   isrVars, pauseVars, histVars, gameVars, isrHist>>

\* waits for an event without a timeout
AgentReceive_wait ==
    /\ a_pc = "a_recv"
    /\ event_queue # <<>>
    /\ a_event' = Head(event_queue)
    /\ event_queue' = Tail(event_queue)
    /\ servedSusp' = IF suspended THEN servedSusp \cup {"event"}
                     ELSE servedSusp
    /\ a_pc' = "a_route"
    /\ UNCHANGED <<agent_connected, identify_requested, last_command_tick, tick,
                   event_buffer, serial, a_now, isrVars, pauseVars, gameVars,
                   isrHist, nEmitted, nBytes, dMark, identMark, nPushed, nIdent,
                   staleSeq, checkedOut>>

\* line 351: xQueueReceive with a 10 ms timeout
AgentReceive ==
    /\ a_pc = "a_recv"
    /\ IF event_queue # <<>>
       THEN /\ a_event' = Head(event_queue)
            /\ event_queue' = Tail(event_queue)
            /\ servedSusp' = IF suspended THEN servedSusp \cup {"event"}
                             ELSE servedSusp
            /\ a_pc' = "a_route"
       ELSE /\ UNCHANGED <<a_event, event_queue, servedSusp>>
            /\ a_pc' = "a_sleep"
    /\ UNCHANGED <<agent_connected, identify_requested, last_command_tick, tick,
                   event_buffer, serial, a_now, isrVars, pauseVars, gameVars,
                   isrHist, nEmitted, nBytes, dMark, identMark, nPushed, nIdent,
                   staleSeq, checkedOut>>

\* transmits every event, connected or not
AgentRoute_send ==
    /\ a_pc = "a_route"
    /\ a_pc' = "a_send"
    /\ UNCHANGED <<event_queue, agent_connected, identify_requested,
                   last_command_tick, tick, event_buffer, serial, a_event, a_now,
                   isrVars, pauseVars, histVars, gameVars, isrHist>>

\* line 352: agent_connected is read
AgentRoute ==
    /\ a_pc = "a_route"
    /\ a_pc' = IF agent_connected THEN "a_send" ELSE "a_push"
    /\ UNCHANGED <<event_queue, agent_connected, identify_requested,
                   last_command_tick, tick, event_buffer, serial, a_event, a_now,
                   isrVars, pauseVars, histVars, gameVars, isrHist>>

\* line 353
AgentSend ==
    /\ a_pc = "a_send"
    /\ serial' = send_event_json(serial, a_event)
    /\ a_pc' = "a_recv"
    /\ UNCHANGED <<event_queue, agent_connected, identify_requested,
                   last_command_tick, tick, event_buffer, a_event, a_now,
                   isrVars, pauseVars, histVars, gameVars, isrHist>>

\* line 355
AgentPush ==
    /\ a_pc = "a_push"
    /\ event_buffer' = event_buffer_push(event_buffer, a_event)
    /\ nPushed' = nPushed + 1
    /\ a_pc' = "a_recv"
    /\ UNCHANGED <<event_queue, agent_connected, identify_requested,
                   last_command_tick, tick, serial, a_event, a_now,
                   isrVars, pauseVars, gameVars, isrHist, nEmitted, nBytes, dMark,
                   identMark, nIdent, telHist>>

\* line 359
AgentSleep ==
    /\ a_pc = "a_sleep"
    /\ a_pc' = "a_top"
    /\ UNCHANGED <<event_queue, agent_connected, identify_requested,
                   last_command_tick, tick, event_buffer, serial, a_event, a_now,
                   isrVars, pauseVars, histVars, gameVars, isrHist>>

agent_task ==
    \/ AgentTimeoutRead
    \/ AgentTimeoutCheck
    \/ AgentIdentify
    \/ AgentFlush
    \/ AgentSendIdentify
    \/ AgentReceive
    \/ AgentRoute
    \/ AgentSend
    \/ AgentPush
    \/ AgentSleep

(***************************************************************************)
(* The game task as the telemetry task sees it: a producer that hands its  *)
(* events to xQueueSend one after the other (part_008:67-129).  The seq    *)
(* field numbers the events in emission order.                             *)
(***************************************************************************)
GameEmit ==
    /\ event_queue' = xQueueSend(event_queue,
                                 [type |-> "PopResult", seq |-> nEmitted + 1],
                                 EVENT_QUEUE_LENGTH)
    /\ nEmitted' = nEmitted + 1
    /\ staleSeq' = IF /\ staleSeq = 0
                      /\ agent_connected
                      /\ tick - last_command_tick > AGENT_TIMEOUT_MS
                   THEN nEmitted + 1 ELSE staleSeq
    /\ UNCHANGED <<agent_connected, identify_requested, last_command_tick, tick,
                   event_buffer, serial, a_pc, a_event, a_now, isrVars, pauseVars, gameVars, isrHist,
                   nBytes, dMark, identMark, nPushed, nIdent, checkedOut,
                   servedSusp>>

\* the tick interrupt
Tick ==
    /\ tick + TickStep <= MaxTick
    /\ tick' = tick + TickStep
    /\ UNCHANGED <<event_queue, agent_connected, identify_requested,
                   last_command_tick, event_buffer, serial, a_pc, a_event, a_now,
                   isrVars, pauseVars, histVars, gameVars, isrHist>>

(***************************************************************************)
(* Telemetry specification: producer, ISR (D, I and an unrecognised byte), *)
(* tick and the telemetry task                                             *)
(***************************************************************************)
TelBytes == {"D", "I", "x"}

TelEmit == nEmitted < MaxEmit /\ GameEmit

TelByte == nBytes < MaxTelBytes /\ \E c \in TelBytes : UartByte(c)

NextTel == TelEmit \/ TelByte \/ Tick \/ agent_task

SpecTel == Init /\ [][NextTel]_vars

(***************************************************************************)
(* Ring-overflow specification: the agent is absent from boot, the game    *)
(* emits up to MaxPush events, one I byte arrives at some point            *)
(***************************************************************************)
RingEmit ==
    /\ nEmitted < MaxPush
    /\ Len(event_queue) < MaxBacklog
    /\ GameEmit

RingByte == nIdent = 0 /\ UartByte("I")

NextRing == RingEmit \/ RingByte \/ agent_task

SpecRing == Init /\ [][NextRing]_vars

(***************************************************************************)
(* Game task (unnamed/part_008, game.c)                                    *)
(***************************************************************************)
\* levels of 11 pops
POPS_PER_LVL_eleven == [l \in 0..7 |-> 11]

POPS_PER_LVL == [l \in 0..7 |-> 10]

POP_DURATIONS == [l \in 0..7 |->
    CASE l = 0 -> 1500 [] l = 1 -> 1250 [] l = 2 -> 1000 [] l = 3 -> 750
      [] l = 4 -> 600  [] l = 5 -> 500  [] l = 6 -> 350  [] l = 7 -> 275]

BTN_MAP == [b \in 0..7 |->
    CASE b = 0 -> 6 [] b = 1 -> 4 [] b = 2 -> 2 [] b = 3 -> 1
      [] b = 4 -> 7 [] b = 5 -> 5 [] b = 6 -> 3 [] b = 7 -> 0]

RNG_INIT_STATE == [hi |-> RNG_INIT_HI, lo |-> RNG_INIT_LO]

\* 2^n for n in 0..15
RECURSIVE Pow2(_)
Pow2(n) == IF n = 0 THEN 1 ELSE 2 * Pow2(n - 1)

\* bit i (0 = least significant) of a 32-bit value kept as two halves
BitOf(x, i) == IF i < 16 THEN (x.lo \div Pow2(i)) % 2
               ELSE (x.hi \div Pow2(i - 16)) % 2

Bits(x) == [i \in 0..31 |-> BitOf(x, i)]

Shl(b, n) == [i \in 0..31 |-> IF i >= n THEN b[i - n] ELSE 0]

Shr(b, n) == [i \in 0..31 |-> IF i + n <= 31 THEN b[i + n] ELSE 0]

Xor(a, b) == [i \in 0..31 |-> (a[i] + b[i]) % 2]

\* value of the 16 bits b[off] .. b[off + 15]
RECURSIVE Half(_, _, _)
Half(b, off, i) == IF i = 16 THEN 0 ELSE b[off + i] * Pow2(i) + Half(b, off, i + 1)

FromBits(b) == [hi |-> Half(b, 16, 0), lo |-> Half(b, 0, 0)]

\* utils.c next_rand: x ^= x << 13; x ^= x >> 17; x ^= x << 5
next_rand(x) ==
    LET b0 == Bits(x)
        b1 == Xor(b0, Shl(b0, 13))
        b2 == Xor(b1, Shr(b1, 17))
        b3 == Xor(b2, Shl(b2, 5))
    IN  FromBits(b3)

\* x % m for a 32-bit x and 1 <= m <= 65536
U32Mod(x, m) == ((x.hi % m) * (65536 % m) + x.lo) % m

\* io_expander.c is_btn_pressed: active-low bit of the button's pin
is_btn_pressed(btn, hardware_state) ==
    IF btn >= 8 THEN FALSE
    ELSE (hardware_state \div Pow2(BTN_MAP[btn])) % 2 = 0

\* a Reset command that leaves the other pending intents as they are
ApplyCmd_keep(f, cmd) ==
    CASE cmd.type = "CMD_SET_LEVEL" ->
            IF cmd.level >= 1 /\ cmd.level <= LVLS
            THEN [f EXCEPT !.requested_level_idx = cmd.level - 1,
                           !.level_change_pending = TRUE]
            ELSE f
      [] cmd.type = "CMD_RESET" ->
            [f EXCEPT !.reset_requested = TRUE]
      [] cmd.type = "CMD_START" ->
            [f EXCEPT !.start_requested = TRUE]

\* one iteration of the switch in drain_cmd_queue
ApplyCmd(f, cmd) ==
    CASE cmd.type = "CMD_SET_LEVEL" ->
            IF cmd.level >= 1 /\ cmd.level <= LVLS
            THEN [f EXCEPT !.requested_level_idx = cmd.level - 1,
                           !.level_change_pending = TRUE]
            ELSE f
      [] cmd.type = "CMD_RESET" ->
            [f EXCEPT !.reset_requested = TRUE,
                      !.level_change_pending = FALSE,
                      !.requested_level_idx = 0,
                      !.start_requested = FALSE]
      [] cmd.type = "CMD_START" ->
            [f EXCEPT !.start_requested = TRUE]

\* drain_cmd_queue: the flags after every queued command has been applied
RECURSIVE drain_cmd_queue(_, _)
drain_cmd_queue(f, q) ==
    IF q = <<>> THEN f ELSE drain_cmd_queue(ApplyCmd(f, Head(q)), Tail(q))

\* ignores the requested level
requested_level_or_default_first(f) == 0

requested_level_or_default(f) ==
    IF f.requested_level_idx < LVLS THEN f.requested_level_idx ELSE 0

\* never switches
should_switch_level_never(f, current_level_idx) == FALSE

should_switch_level(f, current_level_idx) ==
    /\ f.level_change_pending
    /\ f.requested_level_idx < LVLS
    /\ f.requested_level_idx # current_level_idx

(***************************************************************************)
(* Game events                                                             *)
(***************************************************************************)
SessionStartEv == [type |-> "SessionStart", seq |-> 0]

PopResultEv(m, o, r, lv, l, idx, total) ==
    [type |-> "PopResult", seq |-> 0, mole |-> m, outcome |-> o,
     reaction_ms |-> r, lives |-> lv, level |-> l + 1, pop_index |-> idx,
     pops_total |-> total]

LevelCompleteEv(l) == [type |-> "LevelComplete", seq |-> 0, level |-> l + 1]

SessionEndEv(w) == [type |-> "SessionEnd", seq |-> 0, won |-> w]

\* what the history keeps of an emitted event
Summary(e) ==
    IF e.type = "PopResult"
    THEN [type |-> e.type, lives |-> e.lives, level |-> e.level,
          pop_index |-> e.pop_index]
    ELSE e

(***************************************************************************)
(* The game task's state as one record, and the step that installs it      *)
(***************************************************************************)
Cur ==
    [lives |-> lives, rng_state |-> rng_state,
     requested_level_idx |-> requested_level_idx,
     level_change_pending |-> level_change_pending,
     reset_requested |-> reset_requested,
     start_requested |-> start_requested,
     reset_abort_session |-> reset_abort_session,
     g_pc |-> g_pc, lvl |-> lvl, pop |-> pop, mole |-> mole,
     outcome |-> outcome, reaction_ms |-> reaction_ms, btn_state |-> btn_state,
     db_time |-> db_time, elapsed |-> elapsed, idle_i |-> idle_i,
     idle_j |-> idle_j, lastEmit |-> lastEmit, nonHits |-> nonHits,
     inSession |-> inSession, nSessions |-> nSessions, nEnds |-> nEnds,
     stray |-> stray, resetRx |-> resetRx, lvlRx |-> lvlRx,
     switchTo |-> switchTo, emitNote |-> emitNote, slices |-> slices,
     hitPress |-> hitPress, pausedInPoll |-> pausedInPoll,
     nPops |-> nPops, nDone |-> nDone,
     resetDrained |-> resetDrained, pressSeen |-> pressSeen,
     event_queue |-> event_queue, cmd_queue |-> cmd_queue]

\* the game task is scheduled: not suspended, and the pause controller
\* (priority 4) has no notification to process first
GameRuns == ~suspended /\ ~notified

\* a command of type t waits in queue q
Queued(q, t) == \E i \in 1..Len(q) : q[i].type = t

\* the new state is computed once and then installed
GameStep(new) ==
    /\ GameRuns
    /\ \E n \in {new} :
          /\ lives' = n.lives
          /\ rng_state' = n.rng_state
          /\ requested_level_idx' = n.requested_level_idx
          /\ level_change_pending' = n.level_change_pending
          /\ reset_requested' = n.reset_requested
          /\ start_requested' = n.start_requested
          /\ reset_abort_session' = n.reset_abort_session
          /\ g_pc' = n.g_pc
          /\ lvl' = n.lvl
          /\ pop' = n.pop
          /\ mole' = n.mole
          /\ outcome' = n.outcome
          /\ reaction_ms' = n.reaction_ms
          /\ btn_state' = n.btn_state
          /\ db_time' = n.db_time
          /\ elapsed' = n.elapsed
          /\ idle_i' = n.idle_i
          /\ idle_j' = n.idle_j
          /\ lastEmit' = n.lastEmit
          /\ nonHits' = n.nonHits
          /\ inSession' = n.inSession
          /\ nSessions' = n.nSessions
          /\ nEnds' = n.nEnds
          /\ stray' = n.stray
          /\ resetRx' = n.resetRx
          /\ lvlRx' = n.lvlRx
          /\ switchTo' = n.switchTo
          /\ emitNote' = n.emitNote
          /\ slices' = n.slices
          /\ hitPress' = n.hitPress
          /\ pausedInPoll' = n.pausedInPoll
          /\ resetDrained' = n.resetDrained
          /\ pressSeen' = n.pressSeen
          /\ nPops' = n.nPops
          /\ nDone' = n.nDone
          /\ startWiped' = /\ g_pc \in {"as_top", "as_slice"}
                           /\ reset_requested \/ Queued(cmd_queue, "CMD_RESET")
                           /\ start_requested \/ Queued(cmd_queue, "CMD_START")
          /\ event_queue' = n.event_queue
          /\ cmd_queue' = n.cmd_queue
          /\ UNCHANGED <<agent_connected, identify_requested, last_command_tick, tick,
                         event_buffer, serial, a_pc, a_event, a_now, notified,
                         pauseVars, histVars, askedLvl>>

\* drain_cmd_queue applied to a state record
Drained(s) ==
    LET f == drain_cmd_queue([requested_level_idx |-> s.requested_level_idx,
                              level_change_pending |-> s.level_change_pending,
                              reset_requested |-> s.reset_requested,
                              start_requested |-> s.start_requested],
                             s.cmd_queue)
    IN  [s EXCEPT !.requested_level_idx = f.requested_level_idx,
                  !.level_change_pending = f.level_change_pending,
                  !.reset_requested = f.reset_requested,
                  !.start_requested = f.start_requested,
                  !.cmd_queue = <<>>,
                  !.resetDrained = s.resetDrained \/ (f.reset_requested /\ s.inSession),
                  !.switchTo =
                      IF s.inSession
                         /\ \E i \in 1..Len(s.cmd_queue) :
                               s.cmd_queue[i].type \in {"CMD_SET_LEVEL", "CMD_RESET"}
                      THEN IF /\ ~f.reset_requested
                              /\ f.level_change_pending
                              /\ f.requested_level_idx < LVLS
                              /\ f.requested_level_idx # s.lvl
                           THEN f.requested_level_idx + 1 ELSE 0
                      ELSE s.switchTo]

\* forgets to record that a session was aborted
apply_reset_state_noabort(s, abort_session) ==
    [s EXCEPT !.reset_requested = FALSE,
              !.level_change_pending = FALSE,
              !.start_requested = FALSE,
              !.requested_level_idx = 0,
              !.lives = LIVES,
              !.rng_state = RNG_INIT_STATE,
              !.reset_abort_session = FALSE]

\* apply_reset_state
apply_reset_state(s, abort_session) ==
    [s EXCEPT !.reset_requested = FALSE,
              !.level_change_pending = FALSE,
              !.start_requested = FALSE,
              !.requested_level_idx = 0,
              !.lives = LIVES,
              !.rng_state = RNG_INIT_STATE,
              !.reset_abort_session = abort_session]

\* emit_*: xQueueSend(event_queue, &event, 0), with the history of emissions
Emitted(s, e) ==
    [s EXCEPT !.event_queue = xQueueSend(s.event_queue, e, EVENT_QUEUE_LENGTH),
              !.lastEmit = Summary(e),
              !.inSession = IF e.type = "SessionStart" THEN TRUE
                            ELSE IF e.type = "SessionEnd" THEN FALSE
                            ELSE s.inSession,
              !.nSessions = IF e.type = "SessionStart"
                            THEN s.nSessions + 1 ELSE s.nSessions,
              !.nPops = IF e.type \in {"SessionStart", "SessionEnd"} THEN 0
                        ELSE IF e.type = "PopResult" THEN s.nPops + 1
                        ELSE s.nPops,
              !.nDone = IF e.type \in {"SessionStart", "SessionEnd"} THEN 0
                        ELSE IF e.type = "LevelComplete" THEN s.nDone + 1
                        ELSE s.nDone,
              !.nEnds = IF e.type = "SessionStart" THEN 0
                        ELSE IF e.type = "SessionEnd" THEN s.nEnds + 1
                        ELSE s.nEnds,
              !.stray = s.stray \/ (e.type \in {"PopResult", "LevelComplete"}
                                      /\ ~s.inSession),
              !.nonHits = IF e.type = "SessionStart" THEN 0
                          ELSE IF e.type = "PopResult" /\ e.outcome # "POP_HIT"
                          THEN s.nonHits + 1 ELSE s.nonHits,
              !.resetRx = IF e.type = "SessionStart" THEN FALSE ELSE s.resetRx,
              !.emitNote = [rx |-> s.lvlRx, sw |-> s.switchTo],
              !.lvlRx = IF e.type = "PopResult" /\ e.level # s.lvlRx
                        THEN s.lvlRx
                        ELSE IF e.type = "LevelComplete" THEN s.lvlRx ELSE 0,
              !.switchTo = 0,
              !.resetDrained = IF e.type = "SessionStart"
                               THEN FALSE ELSE s.resetDrained]

\* locals of a finished call hold no value any more
LeaveLevel(s) ==
    [s EXCEPT !.pop = 0, !.mole = 0, !.outcome = "POP_HIT", !.reaction_ms = 0,
              !.btn_state = BTN_HW_STATE, !.db_time = 0, !.elapsed = 0,
              !.pressSeen = FALSE, !.slices = 0, !.hitPress = FALSE,
              !.pausedInPoll = FALSE]

\* forgets a start request when game_run returns
LeaveRun_nostart(s) ==
    [LeaveLevel(s) EXCEPT !.lvl = 0, !.start_requested = FALSE]

LeaveRun(s) == [LeaveLevel(s) EXCEPT !.lvl = 0]

\* the telemetry task is in the serial write of line 353 (printf and
\* fflush(stdout) of send_event_json)
SerialBusy == a_pc = "a_send"

\* a delay of 100 ms or more has elapsed: the telemetry task, whose loop
\* sleeps 10 ms and waits at most 10 ms on the queue, has emptied the queue,
\* unless the serial write holds it
TelemetryCaughtUp == event_queue = <<>> \/ SerialBusy

(***************************************************************************)
(* Button reads: io_expander_read_btns writes the byte on success and      *)
(* leaves it unwritten on an I2C error                                     *)
(***************************************************************************)
BtnInputs == {BTN_HW_STATE} \cup {BTN_HW_STATE - Pow2(p) : p \in 0..7}

\* <<err = E_SUCCESS, btn_state after the call>>; an unwritten, never
\* initialised btn_state (-1) reads as any byte
ReadBtns(cur) ==
    {<<TRUE, v>> : v \in BtnInputs}
        \cup {<<FALSE, v>> : v \in (IF cur = -1 THEN BtnInputs ELSE {cur})}

(***************************************************************************)
(* game_task, await_start                                                  *)
(***************************************************************************)
\* await_start with the start request tested before the reset request
AsTop_startfirst ==
    /\ g_pc = "as_top"
    /\ LET d == Drained(Cur)
       IN  GameStep(
             IF d.start_requested
             THEN [d EXCEPT !.start_requested = FALSE, !.g_pc = "gt_drain2"]
             ELSE IF d.reset_requested
             THEN [apply_reset_state(d, FALSE) EXCEPT !.g_pc = "as_top"]
             ELSE [d EXCEPT !.idle_i = 0, !.idle_j = 0, !.g_pc = "as_slice"])

\* game_task line 514, then await_start line 410
GtDrain1 ==
    /\ g_pc = "gt_drain1"
    /\ GameStep([Drained(Cur) EXCEPT !.g_pc = "as_top",
                                     !.btn_state = BTN_HW_STATE])

\* await_start lines 412-423
AsTop ==
    /\ g_pc = "as_top"
    /\ LET d == Drained(Cur)
       IN  GameStep(
             IF d.reset_requested
             THEN [apply_reset_state(d, FALSE) EXCEPT !.g_pc = "as_top"]
             ELSE IF d.start_requested
             THEN [d EXCEPT !.start_requested = FALSE, !.g_pc = "gt_drain2"]
             ELSE [d EXCEPT !.idle_i = 0, !.idle_j = 0, !.g_pc = "as_slice"])

\* await_start lines 425-440: one 10 ms slice
AsSlice ==
    /\ g_pc = "as_slice"
    /\ LET d == Drained(Cur)
       IN  IF d.reset_requested
           THEN GameStep([apply_reset_state(d, FALSE) EXCEPT
                            !.g_pc = "as_top", !.idle_i = 0, !.idle_j = 0])
           ELSE IF d.start_requested
           THEN GameStep([d EXCEPT !.start_requested = FALSE,
                            !.g_pc = "gt_drain2", !.idle_i = 0, !.idle_j = 0])
           ELSE \E rd \in ReadBtns(btn_state) :
                  /\ (rd[1] /\ rd[2] = BTN_HW_STATE) \/ nSessions < MaxSessions
                  /\ GameStep(
                       IF ~rd[1] \/ rd[2] # BTN_HW_STATE
                       THEN [d EXCEPT !.btn_state = rd[2], !.g_pc = "gt_drain2",
                                      !.idle_i = 0, !.idle_j = 0]
                       ELSE IF idle_j + 1 < 50
                       THEN [d EXCEPT !.btn_state = rd[2], !.idle_j = idle_j + 1]
                       ELSE IF idle_i + 1 < 8
                       THEN [d EXCEPT !.btn_state = rd[2], !.idle_j = 0,
                                      !.idle_i = idle_i + 1]
                       ELSE [d EXCEPT !.btn_state = rd[2], !.idle_j = 0,
                                      !.idle_i = 0, !.g_pc = "as_top"])

\* game_task line 516
GtDrain2 ==
    /\ g_pc = "gt_drain2"
    /\ GameStep([Drained(Cur) EXCEPT !.g_pc = "gr_start"])

(***************************************************************************)
(* game_run                                                                *)
(***************************************************************************)
\* lines 451-461
GrStart ==
    /\ g_pc = "gr_start"
    /\ LET d == Drained([Cur EXCEPT !.lives = LIVES, !.rng_state = RNG_INIT_STATE])
       IN  GameStep(
             IF d.reset_requested
             THEN [apply_reset_state(d, FALSE) EXCEPT !.g_pc = "gt_drain3"]
             ELSE Emitted([d EXCEPT !.lvl = requested_level_or_default(d),
                                    !.level_change_pending = FALSE,
                                    !.start_requested = FALSE,
                                    !.g_pc = "lv_show"],
                          SessionStartEv))

\* line 471: the session is lost
GameOver_never(l) == FALSE

GameOver(l) == l = 0

\* returns from an aborted session without SessionEnd
GrAfter_noend ==
    /\ g_pc = "gr_after"
    /\ GameStep(
         IF reset_abort_session
         THEN LeaveRun([Cur EXCEPT !.reset_abort_session = FALSE,
                                   !.g_pc = "gt_drain3"])
         ELSE IF GameOver(lives)
         THEN LeaveRun(Emitted([Cur EXCEPT !.g_pc = "gr_over"],
                               SessionEndEv(FALSE)))
         ELSE [Cur EXCEPT !.g_pc = "gr_between"])

\* lines 466-477, after game_run_level has returned
GrAfter ==
    /\ g_pc = "gr_after"
    /\ GameStep(
         IF reset_abort_session
         THEN LeaveRun(Emitted([Cur EXCEPT !.reset_abort_session = FALSE,
                                           !.g_pc = "gt_drain3"],
                               SessionEndEv(FALSE)))
         ELSE IF GameOver(lives)
         THEN LeaveRun(Emitted([Cur EXCEPT !.g_pc = "gr_over"],
                               SessionEndEv(FALSE)))
         ELSE [Cur EXCEPT !.g_pc = "gr_between"])

\* lines 474-476: MS_SLEEP(500); feedback_game_over(); return
GrOver ==
    /\ g_pc = "gr_over"
    /\ TelemetryCaughtUp
    /\ GameStep([Cur EXCEPT !.g_pc = "gt_drain3"])

\* lines 479-494 and the loop condition of line 463
GrBetween ==
    /\ g_pc = "gr_between"
    /\ LET d == Drained(Cur)
           t == requested_level_or_default(d)
           c == [d EXCEPT !.level_change_pending = FALSE]
       IN  GameStep(
             IF d.reset_requested
             THEN LeaveRun(Emitted([apply_reset_state(d, TRUE) EXCEPT
                                      !.reset_abort_session = FALSE,
                                      !.g_pc = "gt_drain3"],
                                   SessionEndEv(FALSE)))
             ELSE IF d.level_change_pending /\ t # lvl
             THEN [c EXCEPT !.lvl = t, !.g_pc = "lv_show"]
             ELSE LET n == IF d.level_change_pending THEN c ELSE d
                  IN  IF lvl + 1 < LVLS
                      THEN [n EXCEPT !.lvl = lvl + 1, !.g_pc = "lv_show"]
                      ELSE [n EXCEPT !.lvl = lvl + 1, !.g_pc = "gr_final"])

\* lines 497-505
GrFinal ==
    /\ g_pc = "gr_final"
    /\ GameStep(
         IF reset_requested
         THEN LeaveRun(Emitted([apply_reset_state(Cur, TRUE) EXCEPT
                                  !.reset_abort_session = FALSE,
                                  !.g_pc = "gt_drain3"],
                               SessionEndEv(FALSE)))
         ELSE LeaveRun(Emitted([Cur EXCEPT !.g_pc = "gr_win"],
                               SessionEndEv(TRUE))))

\* lines 506-507: MS_SLEEP(500); feedback_win()
GrWin ==
    /\ g_pc = "gr_win"
    /\ TelemetryCaughtUp
    /\ GameStep([Cur EXCEPT !.g_pc = "gt_drain3"])

\* game_task lines 518-522
GtDrain3 ==
    /\ g_pc = "gt_drain3"
    /\ LET d == Drained(Cur)
       IN  GameStep(
             IF d.reset_abort_session
             THEN [d EXCEPT !.reset_abort_session = FALSE, !.g_pc = "gt_drain1"]
             ELSE [d EXCEPT !.g_pc = "gt_delay"])

\* game_task line 523: MS_SLEEP(2000)
GtDelay ==
    /\ g_pc = "gt_delay"
    /\ TelemetryCaughtUp
    /\ GameStep([Cur EXCEPT !.g_pc = "gt_drain1"])

(***************************************************************************)
(* game_run_level and pop_do                                               *)
(***************************************************************************)
\* line 366, lvl_show, and the first loop test of line 368
LvShow ==
    /\ g_pc = "lv_show"
    /\ TelemetryCaughtUp
    /\ GameStep([Cur EXCEPT !.pop = 0,
                            !.g_pc = IF 0 < POPS_PER_LVL[lvl]
                                     THEN "lv_chk1" ELSE "lv_complete"])

\* drains and switches level, but does not look at reset_requested
Checkpoint_noreset(next) ==
    LET d == Drained(Cur)
    IN  GameStep(
          IF should_switch_level(d, lvl)
          THEN LeaveLevel([d EXCEPT !.g_pc = "gr_after"])
          ELSE [d EXCEPT !.g_pc = next])

\* lines 369-374 (next = "lv_delay") and 377-382 (next = "pd_entry")
Checkpoint(next) ==
    LET d == Drained(Cur)
    IN  GameStep(
          IF d.reset_requested
          THEN LeaveLevel([apply_reset_state(d, TRUE) EXCEPT !.g_pc = "gr_after"])
          ELSE IF should_switch_level(d, lvl)
          THEN LeaveLevel([d EXCEPT !.g_pc = "gr_after"])
          ELSE [d EXCEPT !.g_pc = next])

LvChk1 == g_pc = "lv_chk1" /\ Checkpoint("lv_delay")

\* line 376, pop_wait_delay: MS_SLEEP(250 + next_rand % 751)
LvDelay ==
    /\ g_pc = "lv_delay"
    /\ TelemetryCaughtUp
    /\ GameStep([Cur EXCEPT !.rng_state = next_rand(rng_state),
                            !.g_pc = "lv_chk2"])

LvChk2 == g_pc = "lv_chk2" /\ Checkpoint("pd_entry")

\* pop_do lines 257-259, 273-274
PdEntry ==
    /\ g_pc = "pd_entry"
    /\ LET x == next_rand(rng_state)
       IN  GameStep([Cur EXCEPT !.rng_state = x,
                                !.mole = U32Mod(x, LED_COUNT),
                                !.btn_state = -1,
                                !.db_time = 0,
                                !.pressSeen = FALSE,
                                !.g_pc = "pd_db"])

\* pop_do lines 275-282: one iteration of the debounce loop; on leaving it
\* lines 289-291 and 308
PdDebounce ==
    /\ g_pc = "pd_db"
    /\ \E rd \in ReadBtns(btn_state) :
         GameStep(
           IF rd[2] # BTN_HW_STATE /\ db_time + 10 <= 50
           THEN [Cur EXCEPT !.btn_state = rd[2], !.db_time = db_time + 10]
           ELSE [Cur EXCEPT !.btn_state = rd[2], !.db_time = 0, !.elapsed = 0,
                            !.g_pc = "pd_poll"])

poll_interval == 5

\* also counts a millisecond for the read itself
NextElapsed_read(e) == e + poll_interval + 1

\* line 355: elapsed += poll_interval
NextElapsed(e) == e + poll_interval

\* the polling slices in which the player may press a button: the first
\* MaxPressSlice + 1 slices and the last slice of the pop window
PressSlice(e, duration_ms) ==
    e <= MaxPressSlice * poll_interval \/ e + poll_interval >= duration_ms

\* reacts to the target's button only
PressDetected_target(m, b) == is_btn_pressed(m, b)

\* line 330: any button is pressed
PressDetected(m, b) == b # BTN_HW_STATE

\* pop_do lines 326-361: one iteration of the polling loop, or its exit
PdPoll ==
    /\ g_pc = "pd_poll"
    /\ IF elapsed < POP_DURATIONS[lvl]
       THEN \E rd \in ReadBtns(btn_state) :
              /\ (rd[1] /\ rd[2] # BTN_HW_STATE)
                    => PressSlice(elapsed, POP_DURATIONS[lvl])
              /\ GameStep(
                  IF PressDetected(mole, rd[2])
                  THEN [Cur EXCEPT !.btn_state = BTN_HW_STATE,
                                   !.reaction_ms = elapsed,
                                   !.elapsed = 0,
                                   !.outcome = IF is_btn_pressed(mole, rd[2])
                                               THEN "POP_HIT" ELSE "POP_MISS",
                                   !.pressSeen = pressSeen \/ rd[2] # BTN_HW_STATE,
                                   !.hitPress =
                                       (rd[2] \div Pow2(BTN_MAP[mole])) % 2 = 0,
                                   !.g_pc = "lv_result"]
                  ELSE [Cur EXCEPT !.btn_state = rd[2],
                                   !.pressSeen = pressSeen \/ rd[2] # BTN_HW_STATE,
                                   !.slices = slices + 1,
                                   !.elapsed = NextElapsed(elapsed)])
       ELSE GameStep([Cur EXCEPT !.btn_state = BTN_HW_STATE,
                                 !.reaction_ms = POP_DURATIONS[lvl],
                                 !.elapsed = 0,
                                 !.outcome = "POP_LATE",
                                 !.g_pc = "lv_result"])

\* counts a Late as free
LivesAfter_latefree(o, l) == IF o = "POP_MISS" THEN (l + 255) % 256 ELSE l

\* lines 388-391: lives-- (uint8_t) unless the pop was a Hit
LivesAfter(o, l) == IF o = "POP_HIT" THEN l ELSE (l + 255) % 256

\* game_run_level lines 388-401 and the loop step of line 368
LvResult ==
    /\ g_pc = "lv_result"
    /\ LET lv == LivesAfter(outcome, lives)
           e == Emitted([Cur EXCEPT !.lives = lv],
                        PopResultEv(mole, outcome, reaction_ms, lv, lvl, pop + 1,
                                    POPS_PER_LVL[lvl]))
       IN  GameStep(
             IF outcome # "POP_HIT" /\ lv = 0
             THEN LeaveLevel([e EXCEPT !.g_pc = "gr_after"])
             ELSE IF e.reset_requested
             THEN LeaveLevel([apply_reset_state(e, TRUE) EXCEPT !.g_pc = "gr_after"])
             ELSE IF should_switch_level(e, lvl)
             THEN LeaveLevel([e EXCEPT !.g_pc = "gr_after"])
             ELSE IF pop + 1 < POPS_PER_LVL[lvl]
             THEN [LeaveLevel(e) EXCEPT !.pop = pop + 1, !.g_pc = "lv_chk1"]
             ELSE LeaveLevel([e EXCEPT !.g_pc = "lv_complete"]))

\* game_run_level line 404
LvComplete ==
    /\ g_pc = "lv_complete"
    /\ GameStep(Emitted([Cur EXCEPT !.g_pc = "gr_after"], LevelCompleteEv(lvl)))

game_task ==
    \/ GtDrain1 \/ AsTop \/ AsSlice \/ GtDrain2
    \/ GrStart \/ GrAfter \/ GrOver \/ GrBetween \/ GrFinal \/ GrWin
    \/ GtDrain3 \/ GtDelay
    \/ LvShow \/ LvChk1 \/ LvDelay \/ LvChk2
    \/ PdEntry \/ PdDebounce \/ PdPoll \/ LvResult \/ LvComplete

(***************************************************************************)
(* pause_task, uart_cmd.c:94-108                                           *)
(***************************************************************************)
\* suspends on every notification and never resumes
pause_task_suspend_only ==
    /\ notified
    /\ notified' = FALSE
    /\ suspended' = TRUE /\ paused' = TRUE
    /\ pausedInPoll' = (pausedInPoll \/ g_pc = "pd_poll")
    /\ UNCHANGED <<telVars, cmd_queue, histVars, gameVars, resetRx, lvlRx,
                   askedLvl, bootVars>>

\* acts on the notification and leaves it pending
pause_task_repeat ==
    /\ notified
    /\ notified' = notified
    /\ IF paused
       THEN suspended' = FALSE /\ paused' = FALSE /\ UNCHANGED pausedInPoll
       ELSE /\ suspended' = TRUE /\ paused' = TRUE
            /\ pausedInPoll' = (pausedInPoll \/ g_pc = "pd_poll")
    /\ UNCHANGED <<telVars, cmd_queue, histVars, gameVars, resetRx, lvlRx,
                   askedLvl, bootVars>>

\* vTaskSuspend(h), vTaskResume(h): whether the game task is suspended
\* after the call, s telling whether it was before; a handle other than the
\* game task's acts on another task or on none
vTaskSuspend(h, s) == h = GAME_TCB \/ s

vTaskResume(h, s) == h # GAME_TCB /\ s

\* vTaskSuspend(h) suspends the calling task: NULL names the caller
SuspendsCaller(h) == h \in {NULL_HANDLE, PAUSE_TCB}

\* one round of the loop, from the return of xTaskNotifyWait to the next
\* call; a pause controller that suspends itself at line 104 does not reach
\* line 105, and its later notifications have no effect
pause_task ==
    /\ notified
    /\ notified' = FALSE
    /\ IF paused
       THEN /\ suspended' = vTaskResume(game_task_handle, suspended)
            /\ paused' = FALSE
            /\ UNCHANGED pausedInPoll
       ELSE IF SuspendsCaller(game_task_handle)
       THEN UNCHANGED <<suspended, paused, pausedInPoll>>
       ELSE /\ suspended' = vTaskSuspend(game_task_handle, suspended)
            /\ paused' = TRUE
            /\ pausedInPoll' = (pausedInPoll \/ (suspended' /\ g_pc = "pd_poll"))
    /\ UNCHANGED <<telVars, cmd_queue, histVars, gameVars, resetRx, lvlRx,
                   askedLvl, bootVars>>

(***************************************************************************)
(* Game specification: ISR (R and S bytes), game task with its buttons,    *)
(* and the telemetry task as the consumer of the event queue               *)
(***************************************************************************)
GameBytes == {"R", "S"}

\* the host sends S only while it may still start a session
GameByte ==
    /\ nBytes < MaxGameBytes
    /\ \E c \in GameBytes :
         /\ c = "S" => nSessions < MaxSessions
         /\ UartByte(c)

\* agent_task line 351: xQueueReceive takes the oldest event
EventConsumer ==
    /\ event_queue # <<>>
    /\ event_queue' = Tail(event_queue)
    /\ UNCHANGED <<agent_connected, identify_requested, last_command_tick, tick,
                   event_buffer, serial, a_pc, a_event, a_now, isrVars,
                   pauseVars, histVars, lives, rng_state, gameFlags, g_pc,
                   gameLocals, gameHist, isrHist>>

NextGame == GameByte \/ game_task \/ EventConsumer

SpecGame == Init /\ [][NextGame]_vars

(***************************************************************************)
(* Pause specification: ISR (P bytes), pause controller, game task with    *)
(* its buttons, and the consumer of the event queue                        *)
(***************************************************************************)
PauseByte == nBytes < MaxPauseBytes /\ UartByte("P")

NextPause == PauseByte \/ pause_task \/ game_task \/ EventConsumer

SpecPause == Init /\ [][NextPause]_vars

(***************************************************************************)
(* Level-switch specification: ISR (SetLevel bytes), game task with its    *)
(* buttons, and the consumer of the event queue                            *)
(***************************************************************************)
LevelBytes == {"3"}

\* the moments at which the host sends a SetLevel byte: while level 1 is in
\* progress, during its first MaxLevelPop + 1 pops or during its last pop
LevelByteWindow ==
    /\ inSession
    /\ lvl = 0
    /\ g_pc \in {"lv_show", "lv_chk1", "lv_delay", "lv_chk2", "pd_entry",
                 "pd_db", "pd_poll", "lv_result"}
    /\ pop <= MaxLevelPop \/ pop + 1 = POPS_PER_LVL[lvl]

LevelByte ==
    /\ nBytes < MaxLevelBytes
    /\ LevelByteWindow
    /\ \E c \in LevelBytes : UartByte(c)

NextLevel == LevelByte \/ game_task \/ EventConsumer

SpecLevel == Init /\ [][NextLevel]_vars

(***************************************************************************)
(* Stand-alone specification: the game task with its buttons, the          *)
(* telemetry task, the ISR (D and I bytes) and the tick                    *)
(***************************************************************************)
AloneBytes == {"D", "I"}

\* the telemetry task is in its 10 ms sleep of line 359
AgentSleeps == a_pc = "a_sleep"

\* the moments at which the host's presence may change: while the telemetry
\* task sleeps (line 359), before the first session and at the start of its
\* first MaxAloneLvl + 1 levels
AloneWindow ==
    /\ AgentSleeps
    /\ \/ g_pc = "as_top" /\ nSessions = 0
       \/ g_pc = "lv_show" /\ nSessions = 1 /\ lvl <= MaxAloneLvl

\* the host announces itself before or during a session, and leaves or
\* falls silent during a session
AloneByte ==
    /\ nBytes < MaxAloneBytes
    /\ AloneWindow
    /\ \E c \in AloneBytes :
         /\ c = "D" => inSession
         /\ UartByte(c)

AloneTick == AloneWindow /\ inSession /\ Tick

\* the player of the stand-alone specification: button 0 starts the session
\* in the first idle slice, no button is held when a mole pops, a button is
\* down in the first polling slice of every pop, and after the first pop of a
\* session it is the target's button exactly when no life has been lost
Script ==
    /\ idle_i' = 0 /\ idle_j' = 0
    /\ g_pc' = "gt_drain2" => btn_state' = BTN_HW_STATE - Pow2(0)
    /\ db_time' = 0
    /\ slices' = 0
    /\ (g_pc = "pd_poll" /\ g_pc' = "lv_result")
          => \/ lastEmit.type = "SessionStart"
             \/ (outcome' = "POP_HIT") = (lives = LIVES)

\* the game task (priority 3) is blocked in a delay, so that the telemetry
\* task (priority 2) gets the processor
GameSleeps ==
    \/ suspended
    \/ g_pc \in {"as_top", "as_slice", "lv_show", "lv_delay", "pd_db", "pd_poll",
                 "gr_over", "gr_win", "gt_delay"}

\* a ready game task runs at once, and its delays end while the telemetry
\* task sleeps
AloneGame == (AgentSleeps \/ ~GameSleeps) /\ game_task /\ Script

AloneAgent == GameSleeps /\ agent_task

NextAlone == AloneByte \/ AloneTick \/ AloneAgent \/ AloneGame

SpecAlone == Init /\ [][NextAlone]_vars

(***************************************************************************)
(* Dispatcher specification: the ISR with every kind of byte, the tick,    *)
(* the producer and the telemetry task                                     *)
(***************************************************************************)
IsrBytes == {"P", "R", "S", "1", "2", "3", "4", "5", "6", "7", "8", "I", "D", "x"}

IsrByte == nBytes < MaxIsrBytes /\ \E c \in IsrBytes : UartByte(c)

NextIsr == TelEmit \/ IsrByte \/ Tick \/ agent_task

SpecIsr == Init /\ [][NextIsr]_vars

(***************************************************************************)
(* Queue-full specification: the stand-alone specification with a serial   *)
(* write that does not return, so that the event queue fills               *)
(***************************************************************************)
\* line 353 does not return
FullAgent == GameSleeps /\ ~SerialBusy /\ agent_task

\* a ready game task runs at once, and its delays end while the telemetry
\* task sleeps or is held in the serial write
FullGame == (AgentSleeps \/ SerialBusy \/ ~GameSleeps) /\ game_task /\ Script

NextFull == AloneByte \/ FullAgent \/ FullGame

SpecFull == Init /\ [][NextFull]_vars

(***************************************************************************)
(* Properties of the telemetry path                                        *)
(***************************************************************************)
IsEventFrame(f) == f.type # "identify"

\* C1: the game events on the serial link appear in emission order: of any
\* two event lines the earlier one was emitted earlier (no reordering and no
\* repetition), flushed and directly transmitted lines alike.
C1_FifoOrder ==
    \A i, j \in 1..Len(serial) :
        (i < j /\ IsEventFrame(serial[i]) /\ IsEventFrame(serial[j]))
            => serial[i].seq < serial[j].seq

\* a flushed event, the identify frame and a directly transmitted event
C1_Witness ==
    \E i, k, j \in 1..Len(serial) :
        /\ i < k /\ k < j
        /\ IsEventFrame(serial[i])
        /\ ~IsEventFrame(serial[k])
        /\ IsEventFrame(serial[j])
        /\ nPushed > 0

Min(a, b) == IF a < b THEN a ELSE b

\* C2: when the flush on reconnect has finished, the serial link holds the last
\* min(N, 100) of the N events pushed while offline, in push order.
C2_RingDelivery ==
    a_pc = "a_sendid" =>
        LET n == nPushed
            k == Min(n, EVENT_BUFFER_SIZE)
        IN  serial = [i \in 1..k |-> [type |-> "PopResult", seq |-> n - k + i]]

\* more than 100 events were pushed and the flush has finished
C2_Witness == a_pc = "a_sendid" /\ nPushed > EVENT_BUFFER_SIZE

\* C3: once the telemetry task has taken up an identify request with events in
\* the ring, the first line it writes is the identify frame.
C3_IdentifyFirst ==
    (identMark >= 0 /\ Len(serial) > identMark)
        => serial[identMark + 1].type = "identify"

\* C4: after a D byte nothing is written to the serial link until an I byte
\* arrives.
C4_SilentAfterD == dMark >= 0 => Len(serial) = dMark

C6_ResetAbort ==
    /\ [](/\ nEnds <= 1
          /\ ~stray
          /\ (resetDrained /\ ~inSession) => lastEmit = SessionEndEv(FALSE))
    /\ [][(resetDrained /\ inSession)
            => (lastEmit' = lastEmit \/ lastEmit' = SessionEndEv(FALSE))]_vars

\* a session was aborted by a Reset after it had lost a life
C6_Witness ==
    /\ resetDrained /\ ~inSession
    /\ lastEmit = SessionEndEv(FALSE)
    /\ nonHits > 0 /\ nonHits < LIVES

\* C6 as stated: a session in which an R byte was received ends with
\* won=false.
C6_ResetByteEndsLost ==
    (resetRx /\ lastEmit.type = "SessionEnd") => lastEmit.won = FALSE

\* C7: lives is 5 when a session starts and stays within 0..5; the lives field
\* of each PopResult is 5 minus the number of non-Hit PopResults emitted so far
\* in the session.
C7_Lives ==
    /\ lives \in 0..LIVES
    /\ lastEmit.type = "SessionStart" => lives = LIVES
    /\ lastEmit.type = "PopResult"
          => (lastEmit.lives = LIVES - nonHits /\ lastEmit.lives \in 0..LIVES)

\* the fifth non-Hit PopResult of a session reports lives 0
C7_Witness ==
    lastEmit.type = "PopResult" /\ lastEmit.lives = 0 /\ nonHits = LIVES

\* C8: a session whose last PopResult reported lives 0 ends with won=false as
\* its next event, and a SessionEnd{won=false} is emitted only when lives is 0
\* or the game task drained a Reset command during the session.
C8_EndLost ==
    /\ [](lastEmit.type = "SessionEnd"
            => /\ nonHits = LIVES => ~lastEmit.won
               /\ ~lastEmit.won => (nonHits = LIVES \/ resetDrained))
    /\ [][(inSession /\ nonHits = LIVES)
            => (lastEmit' = lastEmit \/ lastEmit' = SessionEndEv(FALSE))]_vars

\* a session lost by running out of lives, without any Reset
C8_Witness ==
    lastEmit = SessionEndEv(FALSE) /\ nonHits = LIVES /\ ~resetDrained

\* C8 as stated: SessionEnd{won=false} only when the last PopResult reported
\* lives 0.
C8_LostOnlyAtZero ==
    (lastEmit.type = "SessionEnd" /\ ~lastEmit.won) => nonHits = LIVES

\* C9: the reaction_ms of a Hit is a non-negative multiple of 5 and at most
\* the pop duration of its level.
C9_HitReaction ==
    \A i \in 1..Len(event_queue) :
        LET e == event_queue[i]
        IN  (e.type = "PopResult" /\ e.outcome = "POP_HIT")
                => /\ e.reaction_ms % 5 = 0
                   /\ e.reaction_ms >= 0
                   /\ e.reaction_ms <= POP_DURATIONS[e.level - 1]

\* a Hit in the last polling slice of a level-2 pop
C9_Witness ==
    \E i \in 1..Len(event_queue) :
        /\ event_queue[i].type = "PopResult"
        /\ event_queue[i].outcome = "POP_HIT"
        /\ event_queue[i].level = 2
        /\ event_queue[i].reaction_ms = POP_DURATIONS[1] - 5

\* C10: the reaction_ms of a Late is the pop duration of its level, and a pop
\* is Late only when no poll of its window saw a pressed button.
C10_Late ==
    /\ (g_pc = "lv_result" /\ outcome = "POP_LATE")
          => (~pressSeen /\ reaction_ms = POP_DURATIONS[lvl])
    /\ \A i \in 1..Len(event_queue) :
          LET e == event_queue[i]
          IN  (e.type = "PopResult" /\ e.outcome = "POP_LATE")
                  => e.reaction_ms = POP_DURATIONS[e.level - 1]

\* a Late PopResult of level 2 is in the event queue
C10_Witness ==
    \E i \in 1..Len(event_queue) :
        /\ event_queue[i].type = "PopResult"
        /\ event_queue[i].outcome = "POP_LATE"
        /\ event_queue[i].level = 2

IdentifyFrames == Cardinality({i \in 1..Len(serial) : ~IsEventFrame(serial[i])})

\* identify frames written, being written, or requested and not yet taken up
IdentifyOwed ==
    IdentifyFrames + (IF a_pc \in {"a_flush", "a_sendid"} THEN 1 ELSE 0)
                   + (IF identify_requested THEN 1 ELSE 0)

\* the events waiting in the ring
InRing(q) ==
    \E k \in 0..(event_buffer.count - 1) :
        event_buffer.events[(event_buffer.tail + k) % EVENT_BUFFER_SIZE].seq = q

C13_SwitchOnDrain ==
    /\ lastEmit.type = "LevelComplete" => emitNote.sw = 0
    /\ (lastEmit.type = "PopResult" /\ emitNote.sw # 0)
          => lastEmit.level = emitNote.sw

\* level 1 was abandoned for level 3 at a checkpoint: first pop of level 3
C13_Witness ==
    /\ lastEmit.type = "PopResult"
    /\ emitNote.sw = 3
    /\ lastEmit.level = 3
    /\ lastEmit.pop_index = 1

\* C13 as stated: once a SetLevel(n) byte has been received while level
\* m # n is in progress, no LevelComplete is emitted before the next
\* PopResult, and that PopResult carries level n.
C13_SwitchOnReceipt ==
    /\ lastEmit.type = "LevelComplete" => emitNote.rx = 0
    /\ (lastEmit.type = "PopResult" /\ emitNote.rx # 0)
          => lastEmit.level = emitNote.rx

(***************************************************************************)
(* Properties of pausing during a pop                                      *)
(***************************************************************************)
\* C14: when the game task was suspended during a pop's polling loop and the
\* pop ends with a button read as pressed, reaction_ms is 5 ms times the
\* number of polling slices the game task completed, and the pop is a Hit
\* when the button read was the target's.
C14_PauseNotCounted ==
    (g_pc = "lv_result" /\ pausedInPoll /\ outcome # "POP_LATE")
        => /\ reaction_ms = 5 * slices
           /\ hitPress => outcome = "POP_HIT"

\* suspended and resumed in the polling loop, then the target's button was
\* pressed after further slices
C14_Witness ==
    /\ g_pc = "lv_result" /\ pausedInPoll /\ ~suspended
    /\ outcome = "POP_HIT" /\ hitPress
    /\ slices > 2

(***************************************************************************)
(* Conservation of events in the telemetry task                            *)
(***************************************************************************)
\* the number of places that hold event q: the event queue, the telemetry
\* task's local copy, the ring, and each line of the serial link
Places(q) ==
    Cardinality({i \in 1..Len(event_queue) : event_queue[i].seq = q})
    + (IF a_pc \in {"a_route", "a_send", "a_push"} /\ a_event.seq = q
       THEN 1 ELSE 0)
    + Cardinality({k \in 0..(event_buffer.count - 1) :
          event_buffer.events[(event_buffer.tail + k) % EVENT_BUFFER_SIZE].seq = q})
    + Cardinality({i \in 1..Len(serial) :
          IsEventFrame(serial[i]) /\ serial[i].seq = q})

\* C15: while the ring does not overflow, every emitted event is in exactly
\* one place: waiting in the event queue, in the telemetry task's hands, in
\* the ring, or once on the serial link.
C15_NoLossNoDuplicate == \A q \in 1..nEmitted : Places(q) = 1

\* after a disconnect and a second identify: events were buffered, the ring
\* has been flushed and three events are on the serial link
C15_Witness ==
    /\ nIdent = 2 /\ nPushed > 0 /\ event_buffer.count = 0
    /\ Cardinality({i \in 1..Len(serial) : IsEventFrame(serial[i])}) >= 3

(***************************************************************************)
(* Properties of the game task running with and without an agent           *)
(***************************************************************************)
\* the ring's contents, oldest first
RingSeq ==
    [k \in 1..event_buffer.count |->
        event_buffer.events[(event_buffer.tail + k - 1) % EVENT_BUFFER_SIZE]]

\* the event the telemetry task has dequeued and not yet sent or buffered
InFlight ==
    IF a_pc \in {"a_route", "a_send", "a_push"} THEN <<a_event>> ELSE <<>>

\* every event the game task has emitted, in emission order, wherever it is
\* now: on the serial link, in the ring, in the telemetry task's hands or in
\* the event queue
Stream == SelectSeq(serial, IsEventFrame) \o RingSeq \o InFlight \o event_queue

\* event y is what the scripted game emits right after event x: the first
\* pop of a session is a hit or a miss, and then every pop is a hit while no
\* life is lost and a miss once one is
Follows(x, y) ==
    CASE x.type = "SessionStart" ->
           /\ y.type = "PopResult" /\ y.level = 1 /\ y.pop_index = 1
           /\ y.lives \in {LIVES, LIVES - 1}
      [] x.type = "PopResult" ->
           IF x.lives = 0 THEN y = SessionEndEv(FALSE)
           ELSE IF x.lives < LIVES
           THEN y = [type |-> "PopResult", lives |-> x.lives - 1,
                     level |-> x.level, pop_index |-> x.pop_index + 1]
           ELSE IF x.pop_index < POPS_PER_LVL[x.level - 1]
           THEN y = [type |-> "PopResult", lives |-> LIVES,
                     level |-> x.level, pop_index |-> x.pop_index + 1]
           ELSE y = LevelCompleteEv(x.level - 1)
      [] x.type = "LevelComplete" ->
           IF x.level < LVLS
           THEN y = [type |-> "PopResult", lives |-> LIVES,
                     level |-> x.level + 1, pop_index |-> 1]
           ELSE y = SessionEndEv(TRUE)
      [] x.type = "SessionEnd" -> y = SessionStartEv

\* what the game task reads or writes, the event queue apart
GameView ==
    <<lives, rng_state, gameFlags, g_pc, gameLocals, cmd_queue, pauseVars, notified>>

\* C16: the game task runs the same with and without an agent. Whatever D
\* bytes, I bytes and connectivity timeouts occur, and whether the agent is
\* connected or not, the events the scripted game has emitted are the same
\* sequence (as long as the ring, which evicts, has taken no more events
\* than it holds): it starts with SessionStart, each event is the one the
\* game's rules put after its predecessor, and it ends with the event
\* emitted last.
\* No step of the telemetry task, no D or I byte and no tick changes what the
\* game task reads or writes.
C16_AgentIndependent ==
    /\ [](LET st == Stream
          IN  nPushed <= EVENT_BUFFER_SIZE =>
                /\ (st # <<>>) = (lastEmit.type # "none")
                /\ st # <<>> => /\ st[1] = SessionStartEv
                                /\ Summary(st[Len(st)]) = lastEmit
                /\ \A i \in 1..(Len(st) - 1) :
                      Follows(Summary(st[i]), Summary(st[i + 1])))
    /\ [][(AloneAgent \/ AloneByte \/ AloneTick) => UNCHANGED GameView]_vars

\* a session has been won although the agent was connected at its start and
\* timed out during it: part of its events is on the serial link, the rest
\* in the ring
C16_Witness ==
    /\ lastEmit = SessionEndEv(TRUE)
    /\ checkedOut
    /\ ~agent_connected
    /\ event_buffer.count > 0
    /\ \E i \in 1..Len(serial) : IsEventFrame(serial[i])

\* a session has been lost with no agent ever connected
C16_WitnessNoAgent ==
    /\ lastEmit = SessionEndEv(FALSE)
    /\ nIdent = 0
    /\ event_buffer.count = LIVES + 2

(***************************************************************************)
(* Properties of the boot state                                            *)
(***************************************************************************)
\* no identify request has been taken up yet
BeforeFirstIdentify ==
    IdentifyFrames = 0 /\ a_pc \notin {"a_flush", "a_sendid"}

\* the first n events the game emitted
FirstEvents(n) == [i \in 1..n |-> [type |-> "PopResult", seq |-> i]]

\* C17: agent_connected is false at boot. Until the telemetry task takes up
\* the first identify request the agent stays disconnected, nothing is on the
\* serial link and every event the telemetry task has handled is in the ring,
\* in emission order; when the first identify frame is written the ring is
\* empty and the serial link holds exactly those events, in order, followed
\* by the identify frame.
C17_BufferedUntilIdentify ==
    /\ [](BeforeFirstIdentify =>
            /\ ~agent_connected
            /\ serial = <<>>
            /\ RingSeq = FirstEvents(nPushed))
    /\ [][(IdentifyFrames = 0 /\ IdentifyFrames' = 1) =>
            /\ event_buffer'.count = 0
            /\ serial' = Append(FirstEvents(nPushed), IdentifyFrame)]_vars

\* the first identify frame has been written after two or more events were
\* buffered from boot
C17_Witness ==
    /\ IdentifyFrames = 1
    /\ nPushed >= 2
    /\ Len(serial) = nPushed + 1
    /\ event_buffer.count = 0

(***************************************************************************)
(* Properties of the command dispatcher                                    *)
(***************************************************************************)
\* C18: a received byte other than D (P, R, S, 1..8, I or an unrecognised
\* byte) sets last_command_tick to the current tick and leaves
\* agent_connected alone; a D byte leaves last_command_tick as it is, clears
\* agent_connected and changes nothing else of the firmware's state.
C18_TimerRefresh ==
    [][\A c \in IsrBytes :
          UartByte(c) =>
             IF c # "D"
             THEN /\ last_command_tick' = tick
                  /\ agent_connected' = agent_connected
             ELSE /\ last_command_tick' = last_command_tick
                  /\ ~agent_connected'
                  /\ UNCHANGED <<cmd_queue, notified, identify_requested, tick,
                                 event_queue, event_buffer, serial, pauseVars>>]_vars

\* the agent identified itself at the first tick step, and a D byte arrived
\* one tick step later: the agent is disconnected and the timer still shows
\* the first tick step
C18_Witness ==
    /\ IdentifyFrames = 1
    /\ dMark >= 0
    /\ ~agent_connected
    /\ last_command_tick = TickStep
    /\ tick = 2 * TickStep

C20_ResetSkipsDelay == g_pc = "gt_delay" => ~(resetDrained /\ ~inSession)

(***************************************************************************)
(* Properties of the observation of commands                               *)
(***************************************************************************)
HasReset(q) == \E i \in 1..Len(q) : q[i].type = "CMD_RESET"

\* a step of the game task (a byte raises nBytes, the consumer shortens the
\* event queue)
GameMoved == nBytes' = nBytes /\ Len(event_queue') >= Len(event_queue)

\* the places of the game task that call drain_cmd_queue
DrainPcs == {"gt_drain1", "as_top", "as_slice", "gt_drain2", "gr_start",
             "gt_drain3", "lv_chk1", "lv_chk2", "gr_between"}

\* the drains that are followed by a test of reset_requested
ResetPcs == {"as_top", "as_slice", "gr_start", "lv_chk1", "lv_chk2", "gr_between"}

\* C21: a Reset command is observed at the next place where the game task
\* drains the command queue: a step of the game task with a Reset queued
\* empties the queue when it is a drain (every 10 ms slice in Idle, before
\* and after the inter-pop delay, between levels, around game_run) and then,
\* where the drain is followed by the test, leaves reset_requested consumed;
\* every other step (the inter-pop delay, the whole of a pop, the emission of
\* its PopResult and of LevelComplete) leaves the Reset in the queue.
C21_ResetAtCheckpoint ==
    [][(GameMoved /\ HasReset(cmd_queue)) =>
          IF g_pc \in DrainPcs
          THEN /\ cmd_queue' = <<>>
               /\ g_pc \in ResetPcs => ~reset_requested'
               /\ g_pc \notin ResetPcs => reset_requested'
          ELSE /\ cmd_queue' = cmd_queue
               /\ reset_requested' = reset_requested]_vars

\* a PopResult has just been emitted with a Reset, received during the
\* session, still waiting in the command queue
C21_Witness ==
    /\ inSession
    /\ g_pc = "lv_chk1"
    /\ lastEmit.type = "PopResult"
    /\ HasReset(cmd_queue)

\* C21 as stated: no PopResult is emitted while a Reset is waiting in the
\* command queue.
C21_ResetBeforePopResult ==
    [][(lastEmit' # lastEmit /\ lastEmit'.type = "PopResult")
          => ~HasReset(cmd_queue)]_vars

(***************************************************************************)
(* Properties of the ring buffer's indices                                 *)
(***************************************************************************)
\* C22: in every reachable state the ring's count is in 0..100, head and
\* tail are in 0..99 and head = (tail + count) mod 100; a push on a full ring
\* advances head and tail by one and leaves count at 100; a pop on an empty
\* ring (the one that ends the flush) changes nothing.
C22_RingIndices ==
    /\ [](/\ event_buffer.count \in 0..EVENT_BUFFER_SIZE
          /\ event_buffer.head \in 0..(EVENT_BUFFER_SIZE - 1)
          /\ event_buffer.tail \in 0..(EVENT_BUFFER_SIZE - 1)
          /\ event_buffer.head
                = (event_buffer.tail + event_buffer.count) % EVENT_BUFFER_SIZE)
    /\ [][(a_pc = "a_push" /\ a_pc' # a_pc
             /\ event_buffer.count = EVENT_BUFFER_SIZE) =>
            /\ event_buffer'.head = (event_buffer.head + 1) % EVENT_BUFFER_SIZE
            /\ event_buffer'.tail = (event_buffer.tail + 1) % EVENT_BUFFER_SIZE
            /\ event_buffer'.count = EVENT_BUFFER_SIZE]_vars
    /\ [][(a_pc = "a_flush" /\ a_pc' # a_pc) =>
            /\ event_buffer.count = 0
            /\ event_buffer' = event_buffer]_vars

\* the ring is full and has wrapped: head and tail have met again past
\* index 0, and the flush of a ring that wrapped has ended on an empty pop
C22_Witness ==
    /\ nPushed > EVENT_BUFFER_SIZE
    /\ a_pc = "a_sendid"
    /\ event_buffer.count = 0
    /\ event_buffer.head = event_buffer.tail
    /\ event_buffer.head > 0

(***************************************************************************)
(* Properties of the timeout check under a concurrent byte                 *)
(***************************************************************************)
\* C23: the timeout check clears agent_connected only when more than 60 s of
\* ticks have elapsed since the last byte other than D (or the last identify)
\* refreshed last_command_tick, whatever bytes arrive while it runs.
C23_NoEarlyTimeout ==
    [][(a_pc \in {"a_cmp_last", "a_cmp_tick"} /\ a_pc' = "a_ident"
          /\ agent_connected /\ ~agent_connected')
        => tick - last_command_tick > pdMS_TO_TICKS(AGENT_TIMEOUT_MS)]_vars

WinBytes == {"3", "8"}

\* the moments at which the host sends a SetLevel byte: in Idle before the
\* first session, and while the first MaxWinPop + 1 pops of level 8 are
\* played or game_run_level has just returned from level 8
WinByteWindow ==
    \/ g_pc = "as_top" /\ nSessions = 0
    \/ /\ inSession
       /\ lvl = LVLS - 1
       /\ pop <= MaxWinPop
       /\ g_pc \in {"lv_show", "lv_delay", "gr_after", "gr_between"}

WinByte ==
    /\ nBytes < MaxWinBytes
    /\ WinByteWindow
    /\ \E c \in WinBytes : UartByte(c)

WinGame == game_task /\ Script

NextWin == WinByte \/ WinGame \/ EventConsumer

SpecWin == Init /\ [][NextWin]_vars

(***************************************************************************)
(* Properties of the end of a session                                      *)
(***************************************************************************)
\* C25: SessionEnd{won=true} is emitted only when the 8th level has
\* completed: the event emitted just before every SessionEnd{won=true} is
\* LevelComplete{level=8}, whatever SetLevel commands the host sends.
C25_WinAfterLevel8 ==
    [][(lastEmit' # lastEmit /\ lastEmit' = SessionEndEv(TRUE))
        => lastEmit = LevelCompleteEv(LVLS - 1)]_vars

(***************************************************************************)
(* Properties of Idle                                                      *)
(***************************************************************************)
IdlePcs == {"as_top", "as_slice"}

\* a Reset, or a Start, is pending when the game task drains the queue
ResetPending == reset_requested \/ Queued(cmd_queue, "CMD_RESET")

StartPending == start_requested \/ Queued(cmd_queue, "CMD_START")

\* C26: in Idle the exit conditions are evaluated in the order reset, start,
\* button. A step of the game task in Idle whose drain leaves reset_requested
\* set consumes the reset and the start request, empties the queue, emits
\* nothing and goes back to the top of await_start, also when a Start is
\* pending; without a reset a pending Start leaves Idle and is consumed;
\* without either a button read as pressed leaves Idle; and Idle is left
\* without a pending Start only from the slice in which the buttons are read.
C26_IdleOrder ==
    [][(g_pc \in IdlePcs /\ GameMoved)
        => /\ ResetPending
                => /\ g_pc' = "as_top"
                   /\ lastEmit' = lastEmit /\ nSessions' = nSessions
                   /\ ~reset_requested' /\ ~start_requested'
                   /\ cmd_queue' = <<>>
           /\ (~ResetPending /\ StartPending)
                => (g_pc' = "gt_drain2" /\ ~start_requested')
           /\ (~ResetPending /\ ~StartPending /\ g_pc = "as_slice"
                 /\ btn_state' # BTN_HW_STATE)
                => g_pc' = "gt_drain2"
           /\ (~ResetPending /\ ~StartPending /\ g_pc' = "gt_drain2")
                => g_pc = "as_slice"]_vars

\* a Reset and a Start were pending in the same Idle step: the game task is
\* at the top of await_start, no session was started and both are consumed
C26_Witness ==
    /\ startWiped
    /\ g_pc = "as_top"
    /\ nSessions = 0
    /\ ~reset_requested /\ ~start_requested
    /\ cmd_queue = <<>>

(***************************************************************************)
(* Session-start specification: the game task with the scripted player and *)
(* a host that sends Reset, Start and SetLevel before the first session    *)
(***************************************************************************)
StartBytes == {"R", "S", "3", "8"}

\* the moments at which the host sends a byte: from the start of the game
\* task to the drain of game_run, before the first session
StartByteWindow ==
    /\ nSessions = 0
    /\ g_pc \in {"gt_drain1", "as_top", "as_slice", "gt_drain2", "gr_start"}

StartByte ==
    /\ nBytes < MaxStartBytes
    /\ StartByteWindow
    /\ \E c \in StartBytes : UartByte(c)

StartGame == game_task /\ Script

NextStart == StartByte \/ StartGame \/ EventConsumer

SpecStart == Init /\ [][NextStart]_vars

(***************************************************************************)
(* Properties of the start of a session                                    *)
(***************************************************************************)
\* the game task emits SessionStart in this step
StartsSession == nSessions' = nSessions + 1

\* index of the level asked for by the latest SetLevel command queued since
\* the latest Reset command, level 1 if none
AskedIdx == IF askedLvl = 0 THEN 0 ELSE askedLvl - 1

\* C27 (as stated): when a session starts, lives is 5, the RNG state is
\* 0xDEADBEEF, the pending flags are false and the first level is the level
\* most recently requested by SetLevel since the last Reset (level 1 if none).
C27_StartAtAskedLevel ==
    [][StartsSession
        => /\ lastEmit' = SessionStartEv
           /\ lives' = LIVES /\ rng_state' = RNG_INIT_STATE
           /\ ~level_change_pending' /\ ~start_requested'
           /\ lvl' = AskedIdx]_vars

\* C27 (amended): SessionStart is the first event of a session and is emitted
\* by game_run after its drain found no Reset; in that step lives is 5, the
\* RNG state is 0xDEADBEEF, the command queue is empty, the pending flags are
\* false and the first level is requested_level_idx as the drain left it,
\* which is the level most recently requested by SetLevel since the last
\* Reset, or level 1 when the game task consumed a Reset after that SetLevel
\* had been drained. When the drain finds a Reset, game_run returns without
\* an event.
C27_SessionStart ==
    [][/\ (~inSession /\ lastEmit' # lastEmit) => StartsSession
       /\ StartsSession
            => /\ g_pc = "gr_start" /\ ~ResetPending
               /\ g_pc' = "lv_show"
               /\ lastEmit' = SessionStartEv
               /\ lives' = LIVES /\ rng_state' = RNG_INIT_STATE
               /\ cmd_queue' = <<>>
               /\ ~level_change_pending' /\ ~start_requested'
               /\ ~reset_requested'
               /\ lvl' = requested_level_idx'
               /\ lvl' \in {AskedIdx, 0}
       /\ (g_pc = "gr_start" /\ GameMoved /\ ResetPending)
            => /\ g_pc' = "gt_drain3"
               /\ lastEmit' = lastEmit /\ nSessions' = nSessions
               /\ ~reset_requested']_vars

\* a session has started at level 8, which the host asked for in Idle
C27_Witness ==
    /\ inSession
    /\ lastEmit = SessionStartEv
    /\ g_pc = "lv_show"
    /\ askedLvl = LVLS /\ lvl = LVLS - 1
    /\ lives = LIVES

(***************************************************************************)
(* Properties of the pending intents                                       *)
(***************************************************************************)
\* the commands queued behind the last Reset command of queue q
RECURSIVE AfterLastReset(_)
AfterLastReset(q) ==
    IF q = <<>> \/ q[Len(q)].type = "CMD_RESET"
    THEN <<>>
    ELSE Append(AfterLastReset(SubSeq(q, 1, Len(q) - 1)), q[Len(q)])

\* level_change_pending, start_requested and requested_level_idx are cleared
Wiped ==
    /\ ~level_change_pending
    /\ ~start_requested
    /\ requested_level_idx = 0

\* C28 (as stated): in every state in which reset_requested is true,
\* level_change_pending and start_requested are false and
\* requested_level_idx is 0.
C28_ResetImpliesWiped == reset_requested => Wiped

\* C28 (amended): the game flags are written by the game task only, never by
\* the ISR. A drain that applies a Reset command and leaves reset_requested
\* set leaves the other intents as the commands queued behind that Reset set
\* them (cleared when the Reset is the last command), and a step in which the
\* game task tests a set reset_requested consumes it and clears them all.
C28_ResetWipes ==
    [][/\ (gameFlags' # gameFlags) => GameMoved
       /\ (GameMoved /\ g_pc \in DrainPcs /\ Queued(cmd_queue, "CMD_RESET")
             /\ reset_requested')
            => LET rest == AfterLastReset(cmd_queue)
               IN  /\ level_change_pending' = Queued(rest, "CMD_SET_LEVEL")
                   /\ start_requested' = Queued(rest, "CMD_START")
                   /\ ~Queued(rest, "CMD_SET_LEVEL") => requested_level_idx' = 0
                   /\ Queued(rest, "CMD_SET_LEVEL")
                        => requested_level_idx' = rest[Len(rest)].level - 1
                           \/ rest[Len(rest)].type # "CMD_SET_LEVEL"
       /\ (GameMoved /\ g_pc \in ResetPcs /\ ResetPending)
            => (~reset_requested' /\ Wiped')]_vars

\* a drain has applied a Reset and then a SetLevel for level 8: the reset is
\* pending together with the level request
C28_Witness ==
    /\ reset_requested
    /\ level_change_pending
    /\ requested_level_idx = LVLS - 1
    /\ askedLvl = LVLS
    /\ cmd_queue = <<>>

(***************************************************************************)
(* Command-queue specification: the host pauses the game in Idle, sends    *)
(* commands until the command queue is full and beyond, and resumes        *)
(***************************************************************************)
\* the commands that fill the queue, and the further bytes sent when it is full
QueueCmdBytes == {"R", "3", "8"}

QueueFullBytes == {"S", "I", "D"}

QueueFull == Len(cmd_queue) = CMD_QUEUE_LENGTH

\* the game task is suspended and the pause controller has nothing to do
QueueWindow == suspended /\ ~notified /\ nSessions = 0

QueueByte ==
    /\ nBytes < MaxQueueBytes
    /\ \/ nBytes = 0 /\ g_pc = "as_slice" /\ UartByte("P")
       \/ QueueWindow /\ UartByte("P")
       \/ QueueWindow /\ \E c \in QueueCmdBytes : UartByte(c)
       \/ QueueWindow /\ QueueFull /\ \E c \in QueueFullBytes : UartByte(c)

\* time passes once, while the queue is full
QueueTick == QueueWindow /\ QueueFull /\ tick = 0 /\ Tick

QueueGame == game_task /\ Script

NextQueue == QueueByte \/ QueueTick \/ pause_task \/ QueueGame \/ EventConsumer

SpecQueue == Init /\ [][NextQueue]_vars

(***************************************************************************)
(* Properties of the command queue                                         *)
(***************************************************************************)
\* the ISR reads a byte in this step
ByteRead == nBytes' = nBytes + 1

\* C29: the command queue never holds more than 8 commands. A byte changes
\* no game flag; it leaves the queue as it is or adds one command at its
\* tail; when the queue is full the queue stays as it is, and the ISR still
\* refreshes last_command_tick (unless the byte is D), notifies the pause
\* controller (P), sets identify_requested (I) or clears agent_connected (D).
\* A drain empties the queue and, when it holds a SetLevel and no Reset is
\* pending, leaves the level of the SetLevel that was queued last as the
\* requested level:
\* commands are applied in arrival order and discarded ones are not applied.
C29_CmdQueue ==
    /\ [](Len(cmd_queue) <= CMD_QUEUE_LENGTH)
    /\ [][/\ ByteRead
               => /\ UNCHANGED <<gameFlags, lives, rng_state, g_pc>>
                  /\ \/ cmd_queue' = cmd_queue
                     \/ /\ Len(cmd_queue') = Len(cmd_queue) + 1
                        /\ SubSeq(cmd_queue', 1, Len(cmd_queue)) = cmd_queue
          /\ (ByteRead /\ QueueFull)
               => /\ cmd_queue' = cmd_queue
                  /\ askedLvl' = askedLvl
                  /\ \/ last_command_tick' = tick
                     \/ /\ ~agent_connected' /\ dMark' = Len(serial)
                        /\ last_command_tick' = last_command_tick
                  /\ nIdent' = nIdent + 1 => identify_requested'
                  /\ nIdent' = nIdent => identify_requested' = identify_requested
          /\ (GameMoved /\ UNCHANGED <<pauseVars, tick>> /\ g_pc \in DrainPcs)
               => /\ cmd_queue' = <<>>
                  /\ (~ResetPending /\ Queued(cmd_queue, "CMD_SET_LEVEL"))
                       => requested_level_idx' = askedLvl - 1]_vars

\* the queue is full, bytes have been discarded, and the ISR has refreshed
\* last_command_tick and taken an identify request meanwhile
C29_Witness ==
    /\ QueueFull
    /\ nBytes = MaxQueueBytes
    /\ tick > 0 /\ last_command_tick = tick
    /\ identify_requested
    /\ cmd_queue[1].type = "CMD_SET_LEVEL" /\ cmd_queue[1].level = 8
    /\ cmd_queue[CMD_QUEUE_LENGTH].type = "CMD_SET_LEVEL"
    /\ cmd_queue[CMD_QUEUE_LENGTH].level = 3

(***************************************************************************)
(* Read-failure specification: the game task with an I2C bus on which      *)
(* every button read of a pop fails                                        *)
(***************************************************************************)
\* every read of pop_do fails and leaves btn_state unwritten: the byte keeps
\* the value the first read of the pop found in it, and the polling loop acts
\* on that value
ReadsFail ==
    /\ (g_pc = "pd_db" /\ btn_state # -1) => btn_state' = btn_state
    /\ (g_pc = "pd_poll" /\ g_pc' = "pd_poll") => btn_state' = btn_state
    /\ (g_pc = "pd_poll" /\ g_pc' = "lv_result" /\ outcome' # "POP_LATE")
          => /\ btn_state # BTN_HW_STATE
             /\ (outcome' = "POP_HIT") = is_btn_pressed(mole, btn_state)

\* button 0 starts the session in the first Idle slice
IdleScript ==
    /\ idle_i' = 0 /\ idle_j' = 0
    /\ g_pc' = "gt_drain2" => btn_state' = BTN_HW_STATE - Pow2(0)

FailGame == game_task /\ IdleScript /\ ReadsFail

NextFail == FailGame \/ EventConsumer

SpecFail == Init /\ [][NextFail]_vars

(***************************************************************************)
(* Properties of a pop without a working button read                       *)
(***************************************************************************)
\* C30: if every button read of a pop fails, leaving its output byte
\* unwritten, the pop ends as if no button was pressed: its outcome is Late
\* and its reaction_ms is the pop duration of the level.
C30_FailedReadsLate ==
    g_pc = "lv_result"
        => (outcome = "POP_LATE" /\ reaction_ms = POP_DURATIONS[lvl])

(***************************************************************************)
(* Properties of a failed button read in Idle                              *)
(***************************************************************************)
\* C31: a failed button read in Idle is not a start trigger. No Start
\* command is ever sent here, so a session begins only after await_start has
\* read a pressed button: when SessionStart has just been emitted, the byte
\* that await_start read last shows a button down.
C31_NoStartOnReadError ==
    (inSession /\ lastEmit = SessionStartEv /\ g_pc = "lv_show")
        => btn_state # BTN_HW_STATE

(***************************************************************************)
(* Bootstrap specification: init_all, then the game task with the scripted *)
(* player once the scheduler runs                                          *)
(***************************************************************************)
SchedulerRuns == b_pc = "done"

BootGameTask == SchedulerRuns /\ game_task /\ Script

BootConsumer == SchedulerRuns /\ EventConsumer

NextBoot == init_all \/ BootGameTask \/ BootConsumer

SpecBoot == InitBoot /\ [][NextBoot]_vars

(***************************************************************************)
(* Properties of the bootstrap                                             *)
(***************************************************************************)
\* C32: when the scheduler runs, the handle that the pause controller
\* stores is the handle of the created game task.
C32_HandleOfGameTask ==
    SchedulerRuns => (game_task_handle = game_handle /\ game_handle = GAME_TCB)

(***************************************************************************)
(* Several-sessions specification: the game task with the scripted player  *)
(* and a host that sends Start and Reset at any moment                     *)
(***************************************************************************)
RunBytes == {"S", "R"}

RunByte == nBytes < MaxRunBytes /\ \E c \in RunBytes : UartByte(c)

\* the player of this specification: as the scripted player during a pop;
\* in Idle a session starts in the first slice, by button or by Start
RunScript ==
    /\ idle_i' = 0 /\ idle_j' = 0
    /\ db_time' = 0
    /\ slices' = 0
    /\ (g_pc = "pd_poll" /\ g_pc' = "lv_result")
          => \/ lastEmit.type = "SessionStart"
             \/ (outcome' = "POP_HIT") = (lives = LIVES)

RunGame == game_task /\ RunScript

NextRuns == RunByte \/ RunGame \/ EventConsumer

SpecRuns == Init /\ [][NextRuns]_vars

(***************************************************************************)
(* Properties of the order of the events                                   *)
(***************************************************************************)
\* the game task emits an event in this step
Emits == lastEmit' # lastEmit

\* C33: SessionStart and SessionEnd alternate, beginning with SessionStart:
\* the first event is SessionStart, SessionStart follows nothing but
\* SessionEnd, SessionEnd never follows SessionEnd, and PopResult and
\* LevelComplete follow SessionStart, PopResult or LevelComplete only. So
\* the one event emitted while no session is open is SessionStart.
C33_SessionBrackets ==
    [][Emits
        => /\ lastEmit'.type = "SessionStart"
                => lastEmit.type \in {"none", "SessionEnd"}
           /\ lastEmit'.type \in {"PopResult", "LevelComplete", "SessionEnd"}
                => lastEmit.type \in {"SessionStart", "PopResult", "LevelComplete"}
           /\ inSession' = (lastEmit'.type # "SessionEnd")
           /\ nSessions' = nSessions + (IF lastEmit'.type = "SessionStart"
                                        THEN 1 ELSE 0)]_vars

\* a second session is running after the first one was lost: its first pop
\* has been reported
C33_Witness ==
    /\ nSessions = 2
    /\ inSession
    /\ lastEmit.type = "PopResult"

(***************************************************************************)
(* Properties of the size of a session                                     *)
(***************************************************************************)
\* C34 (as stated): a session has at most 80 PopResult events and at most 8
\* LevelComplete events.
C34_AtMost80Pops == nPops <= LVLS * 10 /\ nDone <= LVLS

\* C34 (amended): a level has at most 10 pops, numbered from 1, and
\* LevelComplete{k} follows the PopResult with pop_index 10 of level k at
\* once; a session in which no SetLevel command was queued has at most 80
\* PopResult and 8 LevelComplete events, and each SetLevel command received
\* allows one more pass through the levels.
C34_LevelsOfTenPops ==
    /\ [](/\ lastEmit.type = "PopResult"
                => /\ lastEmit.pop_index \in 1..POPS_PER_LVL[lastEmit.level - 1]
                   /\ lastEmit.level \in 1..LVLS
          /\ askedLvl = 0 => C34_AtMost80Pops
          /\ nPops <= LVLS * 10 * (1 + nBytes)
          /\ nDone <= LVLS * (1 + nBytes))
    /\ [][(Emits /\ lastEmit'.type = "LevelComplete")
            => /\ lastEmit.type = "PopResult"
               /\ lastEmit.level = lastEmit'.level
               /\ lastEmit.pop_index = POPS_PER_LVL[lastEmit.level - 1]
               /\ POPS_PER_LVL[lastEmit.level - 1] = 10]_vars

\* a session without SetLevel commands has completed its 8 levels with 80
\* pops
C34_Witness ==
    /\ inSession
    /\ askedLvl = 0
    /\ nPops = LVLS * 10 /\ nDone = LVLS
    /\ lastEmit = LevelCompleteEv(LVLS - 1)

(***************************************************************************)
(* Fair specification: the game task, never suspended, with a player who   *)
(* may also let a pop time out, a host that sends Start, Reset and         *)
(* SetLevel at any moment, and the telemetry task as the consumer of the   *)
(* event queue. The game task has the highest priority of the tasks that   *)
(* run here and each of its delays is finite, so a step it can take is     *)
(* taken; the telemetry task runs while the game task sleeps in a delay.   *)
(***************************************************************************)
LiveBytes == {"S", "R", "3"}

\* the moments at which the host sends a byte: outside a session, or during
\* the first pop of level 1 or of level 8
LiveByteWindow == inSession => (pop = 0 /\ lvl \in {0, LVLS - 1})

LiveByte ==
    /\ nBytes < MaxLiveBytes
    /\ LiveByteWindow
    /\ \E c \in LiveBytes : UartByte(c)

\* the player of this specification: as in the several-sessions
\* specification, and the first pop of a session, or a pop with the last
\* life left, may also pass without any button
LiveScript ==
    /\ idle_i' = 0 /\ idle_j' = 0
    /\ db_time' = 0
    /\ slices' = 0 \/ lives = 1 \/ lastEmit.type = "SessionStart"
    /\ (g_pc = "pd_poll" /\ g_pc' = "lv_result")
          => \/ lastEmit.type = "SessionStart"
             \/ (outcome' = "POP_HIT") = (lives = LIVES)

LiveGame == game_task /\ LiveScript

NextLive == LiveByte \/ LiveGame \/ EventConsumer

SpecLive ==
    /\ Init
    /\ [][NextLive]_vars
    /\ WF_vars(LiveGame)
    /\ WF_vars(EventConsumer)

SuspBytes == {"P", "I", "D"}

SuspEmit == GameRuns /\ nEmitted < MaxSuspEmit /\ GameEmit

SuspByte == nBytes < MaxSuspBytes /\ \E c \in SuspBytes : UartByte(c)

NextSusp == SuspEmit \/ SuspByte \/ Tick \/ pause_task \/ agent_task

SpecSusp ==
    /\ Init
    /\ [][NextSusp]_vars
    /\ WF_vars(pause_task)
    /\ WF_vars(agent_task)

\* the connection timer has run out
TimedOut == tick - last_command_tick > pdMS_TO_TICKS(AGENT_TIMEOUT_MS)

\* the telemetry task holds an event it has dequeued and not yet written
\* or buffered
EventInHand == a_pc \in {"a_route", "a_send", "a_push"}

\* C36: while the game task is suspended the telemetry task keeps running:
\* unless the game task is resumed first, the events in the event queue are
\* eventually dequeued, a dequeued event is eventually written or buffered,
\* a pending identify request is eventually taken up, and a connection whose
\* timer has run out is eventually marked as lost (or refreshed by a byte).
C36_TelemetryRunsWhileSuspended ==
    /\ (suspended /\ event_queue # <<>>) ~> (~suspended \/ event_queue = <<>>)
    /\ (suspended /\ EventInHand) ~> (~suspended \/ ~EventInHand)
    /\ (suspended /\ identify_requested)
          ~> (~suspended \/ ~identify_requested)
    /\ (suspended /\ agent_connected /\ TimedOut)
          ~> (~suspended \/ ~agent_connected \/ ~TimedOut)

\* the game task is suspended, and since it was suspended the telemetry
\* task has taken events from the queue, taken up an identify request and
\* marked the connection as lost
C36_Witness ==
    /\ suspended
    /\ servedSusp = {"event", "identify", "timeout"}
    /\ event_queue = <<>>
    /\ ~EventInHand
    /\ ~agent_connected

(***************************************************************************)
(* Pause-after-bootstrap specification: bootstrap from power-on, then the  *)
(* ISR (P bytes), the pause controller with the handle the bootstrap gave  *)
(* it, the game task with the scripted player, and the consumer of the     *)
(* event queue                                                             *)
(***************************************************************************)
HandleByte == SchedulerRuns /\ nBytes < MaxHandleBytes /\ UartByte("P")

HandlePause == SchedulerRuns /\ pause_task

NextHandle == init_all \/ HandleByte \/ HandlePause \/ BootGameTask \/ BootConsumer

SpecHandle == InitBoot /\ [][NextHandle]_vars

\* C37: between two rounds of the pause controller its paused flag is true
\* exactly when the game task is suspended; only a round of the pause
\* controller changes the suspension of the game task; and every processed
\* notification toggles the suspension, beginning with a runnable game task,
\* so that an odd number of them leaves it suspended and an even number
\* runnable.
C37_PauseControlsGame ==
    /\ [](paused <=> suspended)
    /\ [][/\ (suspended' # suspended)
                => (notified /\ ~notified' /\ paused' # paused)
          /\ (notified /\ ~notified') => (suspended' = ~suspended)]_vars

(***************************************************************************)
(* Properties of the direct transmission                                   *)
(***************************************************************************)
\* C38: when the telemetry task writes an event that it took from the event
\* queue (it read agent_connected as true at line 352), the ring buffer is
\* empty. agent_connected becomes true in the identify handling only, which
\* goes on to event_buffer_flush; the flush ends with an empty ring buffer,
\* and no event leaves the event queue outside the drain loop of line 351.
C38_DirectWhenRingEmpty ==
    /\ [](a_pc = "a_send" => event_buffer.count = 0)
    /\ [](agent_connected => (event_buffer.count = 0 \/ a_pc = "a_flush"))
    /\ [][/\ (~agent_connected /\ agent_connected')
                => (a_pc = "a_ident" /\ identify_requested /\ a_pc' = "a_flush")
          /\ (a_pc = "a_flush" /\ a_pc' # "a_flush")
                => (event_buffer'.count = 0 /\ a_pc' = "a_sendid")
          /\ (Len(event_queue') < Len(event_queue)) => a_pc = "a_recv"]_vars

\* events were buffered, an identify request flushed them, and the telemetry
\* task now writes an event directly
C38_Witness ==
    /\ a_pc = "a_send"
    /\ nPushed > 0
    /\ identMark >= 0
    /\ event_buffer.count = 0

(***************************************************************************)
(* Kept-start specification: the game task with the player of the          *)
(* several-sessions specification, who presses no button in Idle after the *)
(* first session, and a host that sends Start and Reset during sessions    *)
(* only, while the game task sleeps before a checkpoint                    *)
(***************************************************************************)
KeepBytes == {"S", "R"}

KeepByteWindow == inSession /\ g_pc \in {"lv_show", "lv_delay"}

KeepByte ==
    /\ nBytes < MaxKeepBytes
    /\ KeepByteWindow
    /\ \E c \in KeepBytes : UartByte(c)

KeepGame == game_task /\ RunScript

NextKeep == KeepByte \/ KeepGame \/ EventConsumer

SpecKeep == Init /\ [][NextKeep]_vars

\* C39: a Start command drained during a session is kept: start_requested
\* is cleared only when a Reset is pending, or after the session by
\* await_start, which then returns at once, or by game_run as it begins a
\* session. With start_requested set and no Reset pending, await_start
\* returns without reading a button, and game_task goes on to game_run,
\* which emits SessionStart unless it finds a Reset.
C39_StartKept ==
    [][/\ (start_requested /\ ~start_requested')
            => \/ ResetPending
               \/ ~inSession /\ g_pc \in IdlePcs /\ g_pc' = "gt_drain2"
               \/ ~inSession /\ g_pc = "gr_start" /\ inSession'
       /\ (g_pc = "as_top" /\ start_requested /\ ~ResetPending /\ g_pc' # g_pc)
            => (g_pc' = "gt_drain2" /\ btn_state' = btn_state)
       /\ (g_pc = "gt_drain2" /\ g_pc' # g_pc) => g_pc' = "gr_start"
       /\ (g_pc = "gr_start" /\ ~ResetPending /\ g_pc' # g_pc)
            => (lastEmit' = SessionStartEv /\ inSession')]_vars

\* a second session has begun although the only byte was an S received and
\* drained during the first session, and no button was pressed after it
C39_Witness ==
    /\ nSessions = 2
    /\ inSession
    /\ nBytes = 1
    /\ lastEmit = SessionStartEv

(***************************************************************************)
(* Level-advance specification: the game task with the scripted player and *)
(* a host that sends SetLevel bytes for level 1 and level 3 while level 1  *)
(* is in progress or has just been left                                    *)
(***************************************************************************)
AdvBytes == {"1", "3"}

\* the moments at which the host sends a SetLevel byte: during the delays of
\* the first MaxLevelPop + 1 pops of level 1, and between the return of
\* game_run_level and the drain of line 479
AdvByteWindow ==
    /\ inSession
    /\ lvl = 0
    /\ pop <= MaxLevelPop
    /\ g_pc \in {"lv_show", "lv_delay", "gr_after", "gr_between"}

AdvByte ==
    /\ nBytes < MaxAdvBytes
    /\ AdvByteWindow
    /\ \E c \in AdvBytes : UartByte(c)

AdvGame == game_task /\ Script

NextAdv == AdvByte \/ AdvGame \/ EventConsumer

SpecAdv == Init /\ [][NextAdv]_vars

\* C40: when game_run goes on to another level (lines 479-494), that level
\* is the successor of the level whose LevelComplete was the last event
\* emitted, or it is the level named by the latest SetLevel command drained.
C40_LevelEarnedOrAsked ==
    [][(g_pc = "gr_between" /\ g_pc' = "lv_show")
         => \/ lvl' = lvl + 1 /\ lastEmit = LevelCompleteEv(lvl)
            \/ askedLvl # 0 /\ lvl' = askedLvl - 1]_vars

====
